---------------------------- MODULE Spec2Model ----------------------------
(***************************************************************************)
(* A model of msread (xxao/msread): the canonical value types (Masslist),  *)
(* the streaming XML readers (mzML, mzXML, mzData), the MGF reader and the  *)
(* Thermo reader with its parent-scan resolution.                          *)
(*                                                                         *)
(* Each part of the library has its own specification over the variables   *)
(* it uses; the variables of the other parts stay at their idle values.    *)
(*   SpecMasslist   masslist.py                                            *)
(*   SpecFilter, SpecKind, SpecHier, SpecLookup                            *)
(*                  mzml_reader.py, mzxml_reader.py, mzdata_reader.py,     *)
(*                  mgf_reader.py: one pass over a document                *)
(*   SpecLineage, SpecNearest                                              *)
(*                  thermo_reader.py: parent-scan resolution               *)
(*   SpecThermoFile thermo_reader.py: open/close around headers()/scans()  *)
(*   SpecMalformed, SpecCodec                                              *)
(*                  mzml_reader.py: the binary arrays of a spectrum        *)
(*   SpecMapper     mzml_reader.py, mzdata_reader.py: _parse_cv_param      *)
(*   SpecReopen     thermo_reader.py: the lineage cache across open/close  *)
(*   SpecHeader     header.py: ScanHeader construction                     *)
(*   SpecSn         centroid.py: Centroid.sn                               *)
(*   SpecTrailer, SpecEventIndex                                           *)
(*                  thermo_reader.py: single steps of the resolution       *)
(*   SpecConfig     mzml_reader.py: the instrument configurations          *)
(*   SpecInterleave mzxml_reader.py: calls during an iteration             *)
(*   SpecShared     thermo_reader.py: several calls sharing the open file  *)
(*   SpecSchema, SpecWindow                                                *)
(*                  mzml_reader.py: _make_header                           *)
(*   SpecOrder      thermo_reader.py: the lineage cache and the order of   *)
(*                  resolution                                             *)
(***************************************************************************)
EXTENDS Integers, Sequences, FiniteSets, TLC

VARIABLES
    centroids,   \* Masslist._centroids: the stored centroids, in list order
    mlLast,      \* the last operation applied to the masslist
    mlArg,       \* the centroid that operation stored, as a sequence of at most one
    xdoc,        \* the document a reader was constructed on (its path's content)
    hier,        \* MZXMLReader._scan_hierarchy
    stype,       \* MZXMLReader._spectrum_type
    cur,         \* the headers()/scans()/scan()/header() calls made on the reader
    raw,         \* the answers of the vendor file accessor (MSFileReader) of a ThermoReader
    masters,     \* ThermoReader._master_scan_numbers
    lin,         \* the last parent-scan resolution and its outcome
    isOpened,    \* ThermoReader._is_opened
    gens,        \* the headers()/scans() generators made on the ThermoReader
    pin,         \* the argument of a function of the library applied on its own
    pout         \* what that function returned or raised

mlVars == <<centroids, mlLast, mlArg>>
xmlVars == <<xdoc, hier, stype, cur>>

thermoVars == <<raw, masters, lin, isOpened, gens>>
pureVars == <<pin, pout>>

nonMlVars == <<xmlVars, thermoVars, pureVars>>
nonXmlVars == <<mlVars, thermoVars, pureVars>>
nonThermoVars == <<mlVars, xmlVars, pureVars>>
nonPureVars == <<mlVars, xmlVars, thermoVars>>
vars == <<centroids, mlLast, mlArg, xdoc, hier, stype, cur, raw, masters, lin, isOpened, gens,
          pin, pout>>

\* Python's None for a name or kind; an optional number is a sequence of at
\* most one number, None being the empty one
None == "None"
NoneV == <<>>
Some(v) == <<v>>

\* the parts of the library a specification does not exercise
MlIdle == centroids = <<>> /\ mlLast = "idle" /\ mlArg = <<>>
XmlIdle == xdoc = <<>> /\ hier = <<>> /\ stype = None /\ cur = <<>>
PureIdle == pin = <<>> /\ pout = <<>>
ThermoIdle == raw = <<>> /\ masters = <<>> /\ lin = <<>> /\ isOpened = FALSE /\ gens = <<>>

(***************************************************************************)
(* Masslist (masslist.py)                                                  *)
(***************************************************************************)

\* bounds of the masslist model
MaxMz == 2
MaxAi == 2
MaxLen == 3

MzValues == 0..MaxMz
AiValues == 1..MaxAi

\* a stored msread.Centroid, reduced to the two fields Masslist reads or sets
CentroidRec(mz, ai) == [mz |-> mz, ai |-> ai]

\* what a caller may hand to Masslist: a Centroid, a 2-item list/tuple of
\* numbers, or anything else (here a 3-item tuple, a bare number and a pair
\* whose items float() does not take)
CentroidItems == {[type |-> "Centroid", mz |-> m, ai |-> a] : m \in MzValues, a \in AiValues}
PairItems == {[type |-> "pair", item |-> <<m, a>>] : m \in MzValues, a \in AiValues}
OtherItems ==
    {[type |-> "triple", item |-> <<0, 1, 1>>], [type |-> "number", item |-> 1],
     [type |-> "pair of text", item |-> <<0, 0>>]}
ValidItems == CentroidItems \cup PairItems
AnyItems == ValidItems \cup OtherItems

\* Masslist._parse_centroid: the Centroid itself, a new Centroid from a pair
\* (ValueError from float() on an item that is no number), TypeError for
\* anything else
ParseCentroid(item) ==
    IF item.type = "Centroid" THEN [raised |-> "", c |-> CentroidRec(item.mz, item.ai)]
    ELSE IF item.type = "pair" /\ Len(item.item) = 2
         THEN [raised |-> "", c |-> CentroidRec(item.item[1], item.item[2])]
    ELSE IF item.type = "pair of text" /\ Len(item.item) = 2
         THEN [raised |-> "ValueError"]
         ELSE [raised |-> "TypeError"]

\* one step of list.sort(key=mz): c goes behind every element whose key is
\* not greater (the sort is stable)
InsertByMz(c, s) ==
    LET k == Cardinality({i \in 1..Len(s) : s[i].mz <= c.mz})
    IN  SubSeq(s, 1, k) \o <<c>> \o SubSeq(s, k + 1, Len(s))

RECURSIVE SortedByMz(_)
SortedByMz(s) ==
    IF s = <<>> THEN <<>>
    ELSE InsertByMz(s[Len(s)], SortedByMz(SubSeq(s, 1, Len(s) - 1)))

\* a sort that does nothing (what add would do without its trailing sort)
NoSort(s) == s

\* an add that appends before it parses: the item is stored, then the error
\* is raised
AppendThenRaise(item) ==
    /\ ParseCentroid(item).raised # ""
    /\ Len(centroids) < MaxLen
    /\ centroids' = Append(centroids, CentroidRec(0, 1))
    /\ mlLast' = "add raised"
    /\ mlArg' = <<>>
    /\ UNCHANGED nonMlVars

\* Masslist.sort: self._centroids.sort(key=lambda x: x.mz)
SortByMz(s) == SortedByMz(s)

\* sequences over S of length at most n
SeqUpTo(S, n) == UNION {[1..k -> S] : k \in 0..n}

\* Masslist.__init__(centroids): every item parsed, then sorted; an item
\* that does not parse raises, and no Masslist exists
MasslistInit ==
    \E items \in SeqUpTo(ValidItems, MaxLen) :
        /\ centroids = SortByMz([i \in 1..Len(items) |-> ParseCentroid(items[i]).c])
        /\ mlLast = "init"
        /\ mlArg = <<>>
        /\ XmlIdle
        /\ ThermoIdle
    /\ PureIdle
        /\ PureIdle

\* Masslist.add(centroid) with an item that parses: append, then sort
Add(item) ==
    /\ Len(centroids) < MaxLen
    /\ ParseCentroid(item).raised = ""
    /\ centroids' = SortByMz(Append(centroids, ParseCentroid(item).c))
    /\ mlLast' = "add"
    /\ mlArg' = <<ParseCentroid(item).c>>
    /\ UNCHANGED nonMlVars

\* Masslist.add(centroid) with an item that does not parse: the error is
\* raised by _parse_centroid before the list is touched
AddRaises(item) ==
    /\ ParseCentroid(item).raised # ""
    /\ centroids' = centroids
    /\ mlLast' = "add raised"
    /\ mlArg' = <<>>
    /\ UNCHANGED nonMlVars

\* Masslist.__delitem__(i)
DelItem(i) ==
    /\ i \in 1..Len(centroids)
    /\ centroids' = SubSeq(centroids, 1, i - 1) \o SubSeq(centroids, i + 1, Len(centroids))
    /\ mlLast' = "del"
    /\ mlArg' = <<>>
    /\ UNCHANGED nonMlVars

\* masslist[i].mz = v: Masslist.__getitem__ hands out the stored Centroid,
\* whose mz is a plain attribute (centroid.py) the caller may assign
SetMz(i, v) ==
    /\ i \in 1..Len(centroids)
    /\ centroids[i].mz # v
    /\ centroids' = [centroids EXCEPT ![i].mz = v]
    /\ mlLast' = "setmz"
    /\ mlArg' = <<>>
    /\ UNCHANGED nonMlVars

MasslistNext ==
    \/ \E item \in ValidItems : Add(item)
    \/ \E item \in OtherItems : AddRaises(item)
    \/ \E i \in 1..MaxLen : DelItem(i)
    \/ \E i \in 1..MaxLen, v \in MzValues : SetMz(i, v)

SpecMasslist == MasslistInit /\ [][MasslistNext]_vars

IsSortedByMz(s) == \A i \in 1..(Len(s) - 1) : s[i].mz <= s[i + 1].mz

\* C1: after construction from any collection of centroids and after every
\* add call with a Centroid or an (m/z, intensity) pair, the stored centroids
\* are in non-decreasing m/z order.
C1_SortedAfterAdd == mlLast \in {"init", "add"} => IsSortedByMz(centroids)

\* how often centroid c is stored in s
CountOf(c, s) == Cardinality({i \in 1..Len(s) : s[i] = c})

C1_Witness ==
    /\ mlLast = "add"
    /\ Len(centroids) = MaxLen
    /\ mlArg[1].mz < centroids[Len(centroids)].mz
    /\ centroids[1].mz < centroids[Len(centroids)].mz


(***************************************************************************)
(* The streaming readers (mzml_reader.py, mzxml_reader.py,                 *)
(* mzdata_reader.py, mgf_reader.py)                                        *)
(*                                                                         *)
(* A document is a list of scan elements (mzML/mzData <spectrum>, mzXML    *)
(* <scan>, MGF BEGIN IONS..END IONS), numbered in the order their start    *)
(* tags appear.  Of the header fields only those the filters, the lookup   *)
(* by number, the hierarchy and the spectrum kind read are kept.           *)
(***************************************************************************)

\* constants.py: the two spectrum kinds and the two polarities
CENTROIDS == "centroids"
PROFILE == "profile"
POSITIVE == 1
NEGATIVE == 0 - 1

\* bounds of the document model
MaxEl == 3
MaxNum == 3
MaxRt == 2
MaxPts == 1

\* elm.get('num') / elm.get('id') of a scan element: absent, present
\* without a scan number in it (an mzML id such as "index=3"), or a number
IdForms == {"absent", "plain", "num"}

\* the raw attribute as _scan_hierarchy keeps it
NumAttr(e) == IF e.idform = "num" THEN Some(e.num) ELSE NoneV

\* MZMLReader._parse_scan_number / int(attr): the scan number of an id
ParseScanNumber(e) == IF e.idform = "num" THEN Some(e.num) ELSE NoneV

\* the elements with encl[j] = i, in document order
ChildrenSeq(encl, i) ==
    LET S == {j \in 1..Len(encl) : encl[j] = i}
    IN  [k \in 1..Cardinality(S) |-> CHOOSE j \in S : Cardinality({x \in S : x < j}) = k - 1]

\* etree.iterparse(path, ('start', 'end')) over the scan elements: start
\* and end events in document order
RECURSIVE EventsOf(_, _), EventsOfAll(_, _)
EventsOf(encl, i) ==
    <<[type |-> "start", el |-> i]>> \o EventsOfAll(encl, ChildrenSeq(encl, i))
        \o <<[type |-> "end", el |-> i]>>
EventsOfAll(encl, js) ==
    IF js = <<>> THEN <<>> ELSE EventsOf(encl, js[1]) \o EventsOfAll(encl, Tail(js))

\* the events a pass sees: mzXML listens to start and end events and meets
\* <dataProcessing> before the scans; the other readers listen to end only
DocEvents(d) ==
    LET all == EventsOfAll(d.encl, ChildrenSeq(d.encl, 0))
    IN  IF d.fmt = "mzXML"
        THEN (IF d.dp = "nodp" THEN <<>> ELSE <<[type |-> "dp", el |-> 0]>>) \o all
        ELSE SelectSeq(all, LAMBDA ev : ev.type = "end")

\* MZXMLReader._retrieve_spectrum_type: the centroided attribute of
\* <dataProcessing>, "1", "0" or absent
RetrieveSpectrumType(flag) ==
    IF flag = "1" THEN CENTROIDS ELSE IF flag = "0" THEN PROFILE ELSE None

\* one <binaryDataArray> of an mzML spectrum: its array type, the bytes
\* under the base64 text (len of them once inflated, written as floats of
\* truew bytes, packed raw, deflated or damaged) and its own precision
\* (0: no tag) and compression (None: no tag) cvParams
BinArr(type, len, truew, prec, comp, packed) ==
    [type |-> type, len |-> len, truew |-> truew, precision |-> prec,
     compression |-> comp, packed |-> packed]

\* scan_data['<x>_data'], ['<x>_precision'], ['<x>_compression'] of the
\* template: nothing stored
NoSlot == [set |-> FALSE, len |-> 0, truew |-> 4, precision |-> 0, compression |-> None, packed |-> "raw"]
NoArrays == [mz |-> NoSlot, int |-> NoSlot, sn |-> NoSlot]
SlotOf(a) ==
    [set |-> TRUE, len |-> a.len, truew |-> a.truew, precision |-> a.precision,
     compression |-> a.compression, packed |-> a.packed]

\* "store mz array / intensity array / s/n array" of
\* MZMLReader._retrieve_spectrum_data: data and tags of one
\* binaryDataArray go to the three fields of its array type
StoreArray(slots, a) ==
    IF a.type = "mz_array" THEN [slots EXCEPT !.mz = SlotOf(a)]
    ELSE IF a.type = "int_array" THEN [slots EXCEPT !.int = SlotOf(a)]
    ELSE IF a.type = "sn_array" THEN [slots EXCEPT !.sn = SlotOf(a)]
    ELSE slots

\* the loop over the binaryDataArray elements of the spectrum
RECURSIVE StoreArrays(_, _)
StoreArrays(slots, q) ==
    IF q = <<>> THEN slots ELSE StoreArrays(StoreArray(slots, q[1]), Tail(q))

\* the arrays of a spectrum of n points written as plain 32-bit floats
WellFormedPayload(n) ==
    <<BinArr("mz_array", 4 * n, 4, 32, None, "raw"), BinArr("int_array", 4 * n, 4, 32, None, "raw")>>

\* every array is read with the tags of the m/z array
MzTagsForAll(slots, ch) == slots.mz

\* scan_data[ch + '_data'], [ch + '_precision'], [ch + '_compression']
ChannelOf(slots, ch) == slots[ch]

\* `not scan_data['mz_data']`: None or an empty text
HasData(slot) == slot.set /\ slot.len > 0

\* zlib.decompress when the compression is 'zlib': the length of the
\* bytes, or zlib.error on bytes that are not a deflate stream
Inflate(slots, ch) ==
    IF HasData(slots[ch]) /\ ChannelOf(slots, ch).compression = "zlib" /\ slots[ch].packed # "zlib"
    THEN [raised |-> "zlib.error", len |-> 0]
    ELSE [raised |-> "", len |-> slots[ch].len]

\* "get precision": 'd' for 64, 'f' for anything else (32, 16, no tag)
FloatSize(precision) == IF precision = 64 THEN 8 ELSE 4

\* "convert from binary": count = int(len / size) floats are unpacked from
\* the whole buffer, struct.error when the sizes differ
Unpack(slots, ch) ==
    LET size == FloatSize(ChannelOf(slots, ch).precision)
        len == IF HasData(slots[ch]) THEN slots[ch].len ELSE 0
    IN  IF len % size # 0 THEN [raised |-> "struct.error", n |-> 0, exact |-> FALSE]
        ELSE [raised |-> "", n |-> len \div size, exact |-> (len = 0 \/ size = slots[ch].truew)]

Min2(a, b) == IF a <= b THEN a ELSE b

\* MZMLReader._parse_points: no points without m/z or intensity data;
\* the three arrays are inflated, then unpacked; a centroid spectrum zips
\* them (zip stops at the shortest; without s/n values zeros are used), any
\* other spectrum concatenates m/z and intensity columns (numpy raises
\* ValueError on columns of different length)
ParsePoints(slots, spectrum_type) ==
    LET zm == Inflate(slots, "mz")
        zi == Inflate(slots, "int")
        zs == Inflate(slots, "sn")
        um == Unpack(slots, "mz")
        ui == Unpack(slots, "int")
        us == Unpack(slots, "sn")
        fail(e) == [raised |-> e, n |-> 0, exact |-> FALSE, counts |-> <<0, 0, 0>>]
        done(n, x) == [raised |-> "", n |-> n, exact |-> x, counts |-> <<um.n, ui.n, us.n>>]
    IN  IF ~HasData(slots.mz) \/ ~HasData(slots.int) THEN [raised |-> "", n |-> 0, exact |-> TRUE, counts |-> <<0, 0, 0>>]
        ELSE IF zm.raised # "" THEN fail(zm.raised)
        ELSE IF zi.raised # "" THEN fail(zi.raised)
        ELSE IF zs.raised # "" THEN fail(zs.raised)
        ELSE IF um.raised # "" THEN fail(um.raised)
        ELSE IF ui.raised # "" THEN fail(ui.raised)
        ELSE IF us.raised # "" THEN fail(us.raised)
        ELSE IF spectrum_type = CENTROIDS
             THEN IF us.n > 0 THEN done(Min2(um.n, Min2(ui.n, us.n)), um.exact /\ ui.exact /\ us.exact)
                  ELSE done(Min2(um.n, ui.n), um.exact /\ ui.exact)
        ELSE IF um.n # ui.n THEN fail("ValueError")
        ELSE done(um.n, um.exact /\ ui.exact)

\* the points the writer put into the spectrum: the floats of its m/z array
WrittenPoints(slots) == IF HasData(slots.mz) THEN slots.mz.len \div slots.mz.truew ELSE 0

\* _make_template + _retrieve_header_data: scan_data of element e.  h is
\* _scan_hierarchy after the closing scan was removed from it (mzXML).
\*   mzML:   ms_level, polarity, retention_time and spectrum_type come from
\*           cvParams and stay None without them
\*   mzXML:  msLevel defaults to 1; parent is int(_scan_hierarchy[-1]),
\*           which raises TypeError on a None entry; spectrum_type is never
\*           assigned
\*   mzData: msLevel defaults to 1; spectrum_type from acqSpecification
\*   MGF:    the template has no ms_level, polarity or spectrum_type
RetrieveHeaderData(fmt, e, h) ==
    IF fmt = "mzXML" /\ h # <<>> /\ h[Len(h)] = NoneV
    THEN [raised |-> "TypeError"]
    ELSE [raised |-> "",
          scan_number |-> ParseScanNumber(e),
          parent_scan_number |-> IF fmt = "mzXML" /\ h # <<>> THEN h[Len(h)] ELSE NoneV,
          ms_level |-> IF fmt = "MGF" THEN NoneV
                       ELSE IF fmt \in {"mzXML", "mzData"} /\ e.level = NoneV THEN Some(1)
                       ELSE e.level,
          polarity |-> IF fmt = "MGF" THEN NoneV ELSE e.pol,
          retention_time |-> e.rt,
          spectrum_type |-> IF fmt \in {"mzXML", "MGF"} THEN None ELSE e.kind,
          npts |-> 0,
          arrays |-> NoArrays]

\* _check_header_data of the three XML readers: "pass", "reject", or
\* "TypeError" where Python compares None with a number
CheckHeaderData(sd, flt) ==
    IF flt.min_rt # NoneV /\ sd.retention_time = NoneV THEN "TypeError"
    ELSE IF flt.min_rt # NoneV /\ sd.retention_time[1] < flt.min_rt[1] THEN "reject"
    ELSE IF flt.max_rt # NoneV /\ sd.retention_time = NoneV THEN "TypeError"
    ELSE IF flt.max_rt # NoneV /\ sd.retention_time[1] > flt.max_rt[1] THEN "reject"
    ELSE IF flt.ms_level # NoneV /\ sd.ms_level # flt.ms_level THEN "reject"
    ELSE IF flt.polarity # NoneV /\ sd.polarity # flt.polarity THEN "reject"
    ELSE "pass"

\* _retrieve_spectrum_data: the number of encoded points taken from the
\* element.  mzXML tests `if peaks_elm:`, which is false for an element
\* without child elements, as <peaks> always is: nothing is taken.
RetrieveSpectrumData(fmt, e, sd) ==
    [sd EXCEPT !.npts = IF fmt = "mzXML" THEN 0 ELSE e.npts,
               !.arrays = IF fmt = "mzML" THEN StoreArrays(NoArrays, e.payload) ELSE NoArrays]

\* _make_header: the ScanHeader built from scan_data
MakeHeader(el, sd) ==
    [el |-> el, as |-> "header", scan_number |-> sd.scan_number,
     parent_scan_number |-> sd.parent_scan_number, ms_level |-> sd.ms_level,
     polarity |-> sd.polarity, retention_time |-> sd.retention_time,
     spectrum_type |-> sd.spectrum_type, n |-> 0, intact |-> TRUE, raised |-> ""]

\* _parse_points: the width of a decoded point.  mzML zips a third (s/n)
\* channel in only when scan_data['spectrum_type'] is CENTROIDS.
PointWidth(fmt, sd) == IF fmt = "mzML" /\ sd.spectrum_type = CENTROIDS THEN 3 ELSE 2

\* _make_scan: the Scan built from scan_data; the points are parsed first
\* and an exception of the decode leaves _make_scan.  The kind is
\* scan_data['spectrum_type'] unless that is None, else the caller's
\* data_type.  mzML reads point[2] of every point of a centroid scan.
\* (the decoded points are one value: pp is bound to it once.)
MakeScan(fmt, el, sd, dtype) ==
    LET kind == IF sd.spectrum_type # None THEN sd.spectrum_type ELSE dtype
        decoded == IF fmt = "mzML" THEN ParsePoints(sd.arrays, sd.spectrum_type)
                   ELSE [raised |-> "", n |-> sd.npts, exact |-> TRUE, counts |-> <<sd.npts, sd.npts, 0>>]
        Make(pp) ==
            LET hd == [MakeHeader(el, sd) EXCEPT
                          !.n = pp.n,
                          !.intact = IF fmt = "mzML" THEN pp.exact /\ pp.n = WrittenPoints(sd.arrays) ELSE TRUE]
            IN  IF pp.raised # "" THEN [hd EXCEPT !.raised = pp.raised]
                ELSE IF kind = CENTROIDS
                THEN IF fmt = "mzML" /\ pp.n > 0 /\ PointWidth(fmt, sd) < 3
                     THEN [hd EXCEPT !.raised = "IndexError"]
                     ELSE [hd EXCEPT !.as = CENTROIDS]
                ELSE IF kind = PROFILE
                     THEN [hd EXCEPT !.as = PROFILE]
                     ELSE [hd EXCEPT !.raised = "ValueError"]
    IN  CHOOSE scan \in {Make(pp) : pp \in {decoded}} : TRUE


\* the filters of headers()/scans(): each None or a value
Filter(minRt, maxRt, msLevel, pol) ==
    [min_rt |-> minRt, max_rt |-> maxRt, ms_level |-> msLevel, polarity |-> pol]
NoFilter == Filter(NoneV, NoneV, NoneV, NoneV)

\* one call on the reader: a headers()/scans() generator or a
\* scan()/header() lookup, with its arguments, its position in the events,
\* what it gave the caller (out), the steps it ran (ops) and how it ended
NewCall(mode, flt, dtype, req) ==
    [mode |-> mode, flt |-> flt, dtype |-> dtype, req |-> req, pos |-> 1,
     status |-> "fresh", out |-> <<>>, ops |-> <<>>, err |-> ""]

\* the reader's instance attributes and the running call, as one value
Log(m, op, el, res) == [m EXCEPT !.c.ops = Append(@, [op |-> op, el |-> el, res |-> res])]
Raise(m, what) == [m EXCEPT !.c.status = "raised", !.c.err = what]
Yield(m, item) == [m EXCEPT !.c.status = "suspended", !.c.out = Append(@, item)]
Return(m, item) == [m EXCEPT !.c.status = "returned", !.c.out = Append(@, item)]

\* a loop body that goes on to the payload whatever the check said
PayloadRegardless(chk, mode) == IF chk = "TypeError" THEN "raise" ELSE "scan"

\* what headers()/scans() do after _check_header_data: the exception
\* leaves the generator; `continue` after elm.clear() on a rejected
\* element; else the header (headers) or the payload and the scan (scans)
AfterCheck(chk, mode) ==
    IF chk = "TypeError" THEN "raise"
    ELSE IF chk = "reject" THEN "continue"
    ELSE IF mode = "headers" THEN "header"
    ELSE "scan"

\* the body of the loop of headers()/scans() for one closed scan element:
\* header data, filter check, (scans: spectrum data,) clear, yield.
\* MGFReader.headers/scans take no filters (**kwargs swallows them) and
\* check nothing.
IterElement(d, m, el, h) ==
    LET e == d.elems[el]
        sd == RetrieveHeaderData(d.fmt, e, h)
        m1 == Log(m, "header", el, sd.raised)
        chk == IF d.fmt = "MGF" THEN "pass" ELSE CheckHeaderData(sd, m.c.flt)
        m2 == IF d.fmt = "MGF" THEN m1 ELSE Log(m1, "check", el, chk)
        sd2 == RetrieveSpectrumData(d.fmt, e, sd)
        m3(sc) == Log(Log(Log(m2, "spectrum", el, ""), "clear", el, ""), "points", el, sc.raised)
        todo == AfterCheck(chk, m.c.mode)
    IN  IF sd.raised # "" THEN Raise(m1, sd.raised)
        ELSE IF todo = "raise" THEN Raise(m2, "TypeError")
        ELSE IF todo = "continue" THEN Log(m2, "clear", el, "")
        ELSE IF todo = "header" THEN Yield(Log(m2, "clear", el, ""), MakeHeader(el, sd))
        ELSE CHOOSE r \in {IF sc.raised # "" THEN Raise(m3(sc), sc.raised) ELSE Yield(m3(sc), sc) :
                             sc \in {MakeScan(d.fmt, el, sd2, m.c.dtype)}} : TRUE

\* "check scan number" of scan()/header(): whether the element is passed
\* over.
\*   mzML:   if attr and scan_number != self._parse_scan_number(attr)
\*   mzXML:  if scan_number is not None and current_scan_number
\*              and scan_number != int(current_scan_number)
\*   mzData: if attr and scan_number != int(attr)
\*   MGF:    not (not scan_number or scan_number == scan_data['scan_number'])
LookupSkips(fmt, e, req) ==
    IF fmt = "MGF"
    THEN ~(req = NoneV \/ req = Some(0) \/ req = ParseScanNumber(e))
    ELSE req # NoneV /\ e.idform # "absent" /\ req # ParseScanNumber(e)

\* the body of the loop of scan()/header() for one closed scan element: an
\* element passed over is left as it is (no clear), the first other one is
\* returned
LookupElement(d, m, el, h) ==
    LET e == d.elems[el]
        sd == RetrieveHeaderData(d.fmt, e, h)
        m1 == Log(m, "header", el, sd.raised)
        sd2 == RetrieveSpectrumData(d.fmt, e, sd)
        m3(sc) == Log(Log(Log(m1, "spectrum", el, ""), "clear", el, ""), "points", el, sc.raised)
    IN  IF LookupSkips(d.fmt, e, m.c.req) THEN m
        ELSE IF sd.raised # "" THEN Raise(m1, sd.raised)
        ELSE IF m.c.mode = "header" THEN Return(Log(m1, "clear", el, ""), MakeHeader(el, sd))
        ELSE CHOOSE r \in {IF sc.raised # "" THEN Raise(m3(sc), sc.raised) ELSE Return(m3(sc), sc) :
                             sc \in {MakeScan(d.fmt, el, sd2, m.c.dtype)}} : TRUE

Element(d, m, el, h) ==
    IF m.c.mode \in {"headers", "scans"} THEN IterElement(d, m, el, h)
    ELSE LookupElement(d, m, el, h)

\* one turn of `for evt, elm in etree.iterparse(...)`.  mzXML: a
\* <dataProcessing> start sets _spectrum_type, a <scan> start appends its num
\* to _scan_hierarchy, a <scan> end deletes the last entry (IndexError on an
\* empty list) and processes the scan.
HandleEvent(d, m, ev) ==
    IF ev.type = "dp" THEN [m EXCEPT !.stype = RetrieveSpectrumType(d.dp)]
    ELSE IF ev.type = "start" THEN [m EXCEPT !.hier = Append(@, NumAttr(d.elems[ev.el]))]
    ELSE IF d.fmt # "mzXML" THEN Element(d, m, ev.el, <<>>)
    ELSE IF m.hier = <<>> THEN Raise(m, "IndexError")
    ELSE Element(d, [m EXCEPT !.hier = SubSeq(@, 1, Len(@) - 1)], ev.el,
                 SubSeq(m.hier, 1, Len(m.hier) - 1))

\* the loop, run until it yields, returns, raises or runs out of events
RECURSIVE RunPass(_, _)
RunPass(d, m) ==
    IF m.c.pos > Len(DocEvents(d))
    THEN [m EXCEPT !.c.status = IF m.c.mode \in {"headers", "scans"} THEN "done" ELSE "returned"]
    ELSE CHOOSE r \in {IF m1.c.status = "running" THEN RunPass(d, m1) ELSE m1 :
                         m1 \in {HandleEvent(d, [m EXCEPT !.c.pos = @ + 1], DocEvents(d)[m.c.pos])}} : TRUE

\* a call is over: exhausted, returned or ended by an exception
Finished(c) == c.status \in {"done", "returned", "raised"}

\* the first statement of each mzXML method: self._scan_hierarchy = []
ClearHierarchy(fmt, h) == IF fmt = "mzXML" THEN <<>> ELSE h

\* headers(...) or scans(...) is called: a generator, none of whose code
\* has run yet.  The reader is used by one call at a time here.
CallIter(mode, flt, dtype) ==
    /\ xdoc # <<>>
    /\ \A k \in 1..Len(cur) : Finished(cur[k])
    /\ cur' = <<NewCall(mode, flt, dtype, NoneV)>>
    /\ UNCHANGED <<xdoc, hier, stype>>
    /\ UNCHANGED nonXmlVars

\* next() on the generator: its code runs from where it stood (from the top
\* on the first next()) to the next yield, to the end or to an exception
Advance(k) ==
    /\ k \in 1..Len(cur)
    /\ cur[k].mode \in {"headers", "scans"}
    /\ cur[k].status \in {"fresh", "suspended"}
    /\ LET m0 == [hier |-> IF cur[k].status = "fresh" THEN ClearHierarchy(xdoc.fmt, hier) ELSE hier,
                  stype |-> stype,
                  c |-> [cur[k] EXCEPT !.status = "running"]]
       IN  \E m1 \in {RunPass(xdoc, m0)} :
               /\ hier' = m1.hier
               /\ stype' = m1.stype
               /\ cur' = [cur EXCEPT ![k] = m1.c]
    /\ UNCHANGED xdoc
    /\ UNCHANGED nonXmlVars

\* scan(scan_number, data_type) or header(scan_number): runs to its return
CallLookup(mode, req, dtype) ==
    /\ xdoc # <<>>
    /\ \A k \in 1..Len(cur) : Finished(cur[k])
    /\ LET m0 == [hier |-> ClearHierarchy(xdoc.fmt, hier),
                  stype |-> stype,
                  c |-> [NewCall(mode, NoFilter, dtype, req) EXCEPT !.status = "running"]]
       IN  \E m1 \in {RunPass(xdoc, m0)} :
               /\ hier' = m1.hier
               /\ stype' = m1.stype
               /\ cur' = <<m1.c>>
    /\ UNCHANGED xdoc
    /\ UNCHANGED nonXmlVars


(***************************************************************************)
(* Filtered iteration: headers()/scans() with filters over flat documents *)
(***************************************************************************)

Formats == {"mzML", "mzXML", "mzData", "MGF"}
XmlFormats == {"mzML", "mzXML", "mzData"}

\* a scan element as the document declares it
Elem(idform, num, rt, level, pol, kind, npts) ==
    [idform |-> idform, num |-> num, rt |-> rt, level |-> level, pol |-> pol,
     kind |-> kind, npts |-> npts, payload |-> WellFormedPayload(npts)]

\* the documents of n scan elements, none nested, numbered 1..n in order,
\* each with its retention time, level, polarity drawn from A
FlatDoc(fmt, dp, es) == [fmt |-> fmt, encl |-> [i \in DOMAIN es |-> 0], dp |-> dp, elems |-> es]
OptRt == {NoneV} \cup {Some(r) : r \in 1..MaxRt}
OptLevel == {NoneV, Some(2)}
OptPolarity == {NoneV, Some(POSITIVE), Some(NEGATIVE)}
MaxFilterEl == 2
FilterDocs ==
    {FlatDoc(fmt, "nodp", [i \in 1..n |-> Elem("num", i, a[i][1], a[i][2], a[i][3], None, MaxPts)]) :
        fmt \in Formats, n \in {MaxFilterEl},
        a \in [1..MaxFilterEl -> OptRt \X OptLevel \X OptPolarity]}
FilterArgs ==
    {Filter(a, b, l, p) : a \in {NoneV, Some(MaxRt)}, b \in {NoneV, Some(1)},
                          l \in {NoneV, Some(1), Some(2)}, p \in {NoneV, Some(POSITIVE)}}

FilterInit ==
    /\ MlIdle
    /\ ThermoIdle
    /\ PureIdle
    /\ xdoc \in FilterDocs
    /\ hier = <<>>
    /\ stype = None
    /\ cur = <<>>

FilterNext ==
    \/ \E mode \in {"headers", "scans"}, flt \in FilterArgs : CallIter(mode, flt, PROFILE)
    \/ \E k \in 1..Len(cur) : Advance(k)

SpecFilter == FilterInit /\ [][FilterNext]_vars


\* the header of element i satisfies every supplied filter
SatisfiesFilters(d, i, flt) ==
    LET sd == RetrieveHeaderData(d.fmt, d.elems[i], <<>>)
    IN  /\ flt.min_rt # NoneV =>
              sd.retention_time # NoneV /\ sd.retention_time[1] >= flt.min_rt[1]
        /\ flt.max_rt # NoneV =>
              sd.retention_time # NoneV /\ sd.retention_time[1] <= flt.max_rt[1]
        /\ flt.ms_level # NoneV => sd.ms_level = flt.ms_level
        /\ flt.polarity # NoneV => sd.polarity = flt.polarity

\* the elements of d satisfying flt, in document order
RECURSIVE MatchingFrom(_, _, _)
MatchingFrom(d, i, flt) ==
    IF i > Len(d.elems) THEN <<>>
    ELSE (IF SatisfiesFilters(d, i, flt) THEN <<i>> ELSE <<>>) \o MatchingFrom(d, i + 1, flt)

YieldedElements(c) == [i \in 1..Len(c.out) |-> c.out[i].el]

\* C2: a headers()/scans() pass that is over has yielded exactly the
\* elements whose header satisfies every supplied filter, in document order.
C2_YieldsExactlyMatching ==
    \A k \in 1..Len(cur) :
        (cur[k].mode \in {"headers", "scans"} /\ Finished(cur[k]))
            => YieldedElements(cur[k]) = MatchingFrom(xdoc, 1, cur[k].flt)

IsPayloadOp(o) == o.op \in {"spectrum", "points"}

\* C3: in the XML readers the payload of an element is retrieved and
\* decoded only after the filter check passed for that element, never in
\* headers(), and a rejected element is cleared right after the check.
C3_NoPayloadBeforeFilter ==
    \A k \in 1..Len(cur) :
        (xdoc.fmt \in XmlFormats /\ cur[k].mode \in {"headers", "scans"}) =>
            LET ops == cur[k].ops
            IN  \A i \in 1..Len(ops) :
                    /\ IsPayloadOp(ops[i]) =>
                          /\ cur[k].mode = "scans"
                          /\ \E j \in 1..(i - 1) :
                                ops[j] = [op |-> "check", el |-> ops[i].el, res |-> "pass"]
                    /\ (ops[i].op = "check" /\ ops[i].res = "reject") =>
                          /\ i < Len(ops)
                          /\ ops[i + 1] = [op |-> "clear", el |-> ops[i].el, res |-> ""]
                          /\ \A j \in 1..Len(ops) : IsPayloadOp(ops[j]) => ops[j].el # ops[i].el

\* scans() rejected the first element, which carries points, and went on
\* to decode and yield the second
C3_Witness ==
    /\ xdoc # <<>>
    /\ xdoc.fmt = "mzML"
    /\ Len(cur) = 1
    /\ cur[1].mode = "scans"
    /\ cur[1].status = "suspended"
    /\ xdoc.elems[1].npts > 0
    /\ \E i \in 1..Len(cur[1].ops) : cur[1].ops[i] = [op |-> "check", el |-> 1, res |-> "reject"]
    /\ \E i \in 1..Len(cur[1].ops) : cur[1].ops[i] = [op |-> "points", el |-> 2, res |-> ""]
    /\ YieldedElements(cur[1]) = <<2>>


(***************************************************************************)
(* Spectrum kind: scans()/scan() with a default kind over documents that   *)
(* declare a kind per scan (mzML, mzData), per document (mzXML) or not at  *)
(* all                                                                     *)
(***************************************************************************)

Kinds == {CENTROIDS, PROFILE}
MaxKindEl == 2

\* <dataProcessing>: not in the document, without the attribute, "1", "0"
DpFlags(fmt) == IF fmt = "mzXML" THEN {"nodp", "absent", "1", "0"} ELSE {"nodp"}

KindDocs ==
    {FlatDoc(fmt, dp, [i \in 1..MaxKindEl |-> Elem("num", i, NoneV, NoneV, NoneV, a[i][1], a[i][2])]) :
        fmt \in XmlFormats, dp \in {"nodp", "absent", "1", "0"},
        a \in [1..MaxKindEl -> (Kinds \cup {None}) \X (0..MaxPts)]}

KindInit ==
    /\ MlIdle
    /\ ThermoIdle
    /\ PureIdle
    /\ xdoc \in {d \in KindDocs : d.dp \in DpFlags(d.fmt)}
    /\ hier = <<>>
    /\ stype = None
    /\ cur = <<>>

KindNext ==
    \/ \E dtype \in Kinds : CallIter("scans", NoFilter, dtype)
    \/ \E k \in 1..Len(cur) : Advance(k)
    \/ \E n \in 1..MaxKindEl, dtype \in Kinds : CallLookup("scan", Some(n), dtype)

SpecKind == KindInit /\ [][KindNext]_vars

\* the kind the document declares for element i: its own cvParam /
\* acqSpecification (mzML, mzData), the flag of <dataProcessing> (mzXML)
DeclaredKind(d, i) ==
    IF d.fmt = "mzXML" THEN (IF d.dp = "nodp" THEN None ELSE RetrieveSpectrumType(d.dp))
    ELSE d.elems[i].kind

EmitsScans(c) == c.mode \in {"scans", "scan"}

\* C4: every Scan built by mzML, mzXML or mzData is of the kind the
\* document declares for it when it declares one, and of the caller's
\* default kind only when it declares none.
C4_DeclaredKindOverridesDefault ==
    \A k \in 1..Len(cur) : EmitsScans(cur[k]) =>
        \A i \in 1..Len(cur[k].out) :
            LET sc == cur[k].out[i]
                declared == DeclaredKind(xdoc, sc.el)
            IN  sc.as = IF declared # None THEN declared ELSE cur[k].dtype

\* C5: in mzXML, once <dataProcessing> declared centroided or profile
\* data, every scan emitted is of that kind and its header carries that
\* kind, whatever default the caller passed.
C5_DataProcessingFlagDeterminesKind ==
    \A k \in 1..Len(cur) :
        (EmitsScans(cur[k]) /\ xdoc.fmt = "mzXML" /\ xdoc.dp \in {"1", "0"}) =>
            \A i \in 1..Len(cur[k].out) :
                /\ cur[k].out[i].as = RetrieveSpectrumType(xdoc.dp)
                /\ cur[k].out[i].spectrum_type = RetrieveSpectrumType(xdoc.dp)

\* C23: a scan whose kind the document leaves undeclared and whose payload
\* decodes to N points is emitted with the caller's default kind and
\* exactly N points, in each of mzML, mzXML and mzData.
C23_UndeclaredKindKeepsPoints ==
    \A k \in 1..Len(cur) :
        (/\ EmitsScans(cur[k])
         /\ Finished(cur[k])
         /\ \A i \in 1..Len(xdoc.elems) : DeclaredKind(xdoc, i) = None) =>
            /\ cur[k].status # "raised"
            /\ \A j \in 1..Len(cur[k].out) :
                  /\ cur[k].out[j].as = cur[k].dtype
                  /\ cur[k].out[j].n = xdoc.elems[cur[k].out[j].el].npts


(***************************************************************************)
(* Nested scans: headers()/scans() of the mzXML reader over documents      *)
(* whose scan elements nest                                                *)
(***************************************************************************)

\* the enclosing scans of element i, innermost first (0 is the document)
RECURSIVE Ancestors(_, _)
Ancestors(encl, i) == IF encl[i] = 0 THEN <<>> ELSE <<encl[i]>> \o Ancestors(encl, encl[i])
SeqRange(q) == {q[j] : j \in DOMAIN q}

\* encl for n elements numbered in document order: an element is at top
\* level, or inside the element before it, or inside one of the scans
\* enclosing that one
Nestings(n) ==
    {f \in [1..n -> 0..n] :
        \A i \in 1..n :
            /\ f[i] < i
            /\ f[i] # 0 => f[i] \in ({i - 1} \cup SeqRange(Ancestors(f, i - 1)))}

\* the num attribute of <scan>: absent or a number
NumForms == {<<"absent", 0>>} \cup {<<"num", n>> : n \in 1..MaxNum}

HierDocs ==
    {[fmt |-> "mzXML", encl |-> f, dp |-> "nodp",
      elems |-> [i \in 1..Len(a) |-> Elem(a[i][1], a[i][2], NoneV, NoneV, NoneV, None, 0)]] :
        a \in UNION {[1..n -> NumForms] : n \in 1..MaxEl},
        f \in UNION {Nestings(n) : n \in 1..MaxEl}}

HierInit ==
    /\ MlIdle
    /\ ThermoIdle
    /\ PureIdle
    /\ xdoc \in {d \in HierDocs : Len(d.encl) = Len(d.elems)}
    /\ hier = <<>>
    /\ stype = None
    /\ cur = <<>>

HierNext ==
    \/ \E mode \in {"headers", "scans"} : CallIter(mode, NoFilter, PROFILE)
    \/ \E k \in 1..Len(cur) : Advance(k)

SpecHier == HierInit /\ [][HierNext]_vars

\* how many scan elements are open before event pos of the pass
OpenScans(d, pos) ==
    Cardinality({j \in 1..(pos - 1) : DocEvents(d)[j].type = "start"})
        - Cardinality({j \in 1..(pos - 1) : DocEvents(d)[j].type = "end"})

\* C6: in a pass of headers()/scans() over an mzXML document every nested
\* scan gets the number of its immediate enclosing scan as parent, every
\* top-level scan gets none, no scan fails to get its header, and the stack
\* of open scans is empty whenever no scan is open.
C6_ParentIsEnclosingScan ==
    \A k \in 1..Len(cur) : cur[k].mode \in {"headers", "scans"} =>
        /\ cur[k].status # "raised"
        /\ \A i \in 1..Len(cur[k].out) :
              LET el == cur[k].out[i].el
              IN  cur[k].out[i].parent_scan_number =
                      IF xdoc.encl[el] = 0 THEN NoneV ELSE NumAttr(xdoc.elems[xdoc.encl[el]])
        /\ (cur[k].status \in {"suspended", "done"} /\ OpenScans(xdoc, cur[k].pos) = 0)
              => hier = <<>>


(***************************************************************************)
(* Calls on one MZXMLReader while an iteration of it is under way: all of *)
(* them work on the one _scan_hierarchy of the reader.                     *)
(***************************************************************************)

MaxOpenCalls == 3

\* headers(...) or scans(...) is called while an earlier call is not over:
\* one more generator, none of whose code has run yet
CallIterMeanwhile(mode, flt, dtype) ==
    /\ xdoc # <<>>
    /\ \E k \in 1..Len(cur) : ~Finished(cur[k])
    /\ Len(cur) < MaxOpenCalls
    /\ cur' = Append(cur, NewCall(mode, flt, dtype, NoneV))
    /\ UNCHANGED <<xdoc, hier, stype>>
    /\ UNCHANGED nonXmlVars

\* scan(scan_number, data_type) or header(scan_number) is called while an
\* earlier call is not over, and runs to its return
CallLookupMeanwhile(mode, req, dtype) ==
    /\ xdoc # <<>>
    /\ \E k \in 1..Len(cur) : ~Finished(cur[k])
    /\ Len(cur) < MaxOpenCalls
    /\ LET m0 == [hier |-> ClearHierarchy(xdoc.fmt, hier),
                  stype |-> stype,
                  c |-> [NewCall(mode, NoFilter, dtype, req) EXCEPT !.status = "running"]]
       IN  \E m1 \in {RunPass(xdoc, m0)} :
               /\ hier' = m1.hier
               /\ stype' = m1.stype
               /\ cur' = Append(cur, m1.c)
    /\ UNCHANGED xdoc
    /\ UNCHANGED nonXmlVars

\* mzXML documents of scans numbered 1, 2, ... in document order, in every
\* nesting
InterleaveDocs ==
    {[fmt |-> "mzXML", encl |-> f, dp |-> "nodp",
      elems |-> [i \in 1..Len(f) |-> Elem("num", i, NoneV, NoneV, NoneV, None, 0)]] :
        f \in UNION {Nestings(n) : n \in 1..MaxEl}}

InterleaveInit ==
    /\ MlIdle
    /\ ThermoIdle
    /\ PureIdle
    /\ xdoc \in InterleaveDocs
    /\ hier = <<>>
    /\ stype = None
    /\ cur = <<>>

InterleaveNext ==
    \/ \E mode \in {"headers", "scans"} : CallIter(mode, NoFilter, PROFILE)
    \/ \E k \in 1..Len(cur) : Advance(k)
    \/ \E mode \in {"headers", "scans"} : CallIterMeanwhile(mode, NoFilter, PROFILE)
    \/ \E mode \in {"header", "scan"}, req \in {Some(n) : n \in 1..MaxEl} :
          CallLookupMeanwhile(mode, req, PROFILE)

SpecInterleave == InterleaveInit /\ [][InterleaveNext]_vars

\* C25: whatever the caller calls on an mzXML reader while it consumes
\* headers() or scans() - scan(n), header(n), a second iteration - the first
\* iteration goes on without an error and gives every element the parent
\* scan number the document states for it.
C25_InterleavingHarmless ==
    cur # <<>> =>
        /\ cur[1].status # "raised"
        /\ \A i \in 1..Len(cur[1].out) :
              LET el == cur[1].out[i].el
              IN  cur[1].out[i].parent_scan_number =
                      IF xdoc.encl[el] = 0 THEN NoneV ELSE NumAttr(xdoc.elems[xdoc.encl[el]])

(***************************************************************************)
(* Single-scan lookup: scan(scan_number) of the mzML, mzXML, mzData and    *)
(* MGF readers                                                             *)
(***************************************************************************)

\* the id of an element: absent, a number, or (mzML only, whose ids are
\* free text) present without "scan=<number>" in it
IdsOf(fmt) == NumForms \cup (IF fmt = "mzML" THEN {<<"plain", 0>>} ELSE {})

LookupDocs ==
    {FlatDoc(fmt, "nodp", [i \in 1..MaxEl |-> Elem(a[i][1], a[i][2], NoneV, NoneV, NoneV, None, MaxPts)]) :
        fmt \in Formats, a \in [1..MaxEl -> NumForms \cup {<<"plain", 0>>}]}

LookupInit ==
    /\ MlIdle
    /\ ThermoIdle
    /\ PureIdle
    /\ xdoc \in {d \in LookupDocs :
                    \A i \in 1..MaxEl : <<d.elems[i].idform, d.elems[i].num>> \in IdsOf(d.fmt)}
    /\ hier = <<>>
    /\ stype = None
    /\ cur = <<>>

LookupNext ==
    \E req \in {NoneV} \cup {Some(n) : n \in 0..MaxNum} : CallLookup("scan", req, PROFILE)

SpecLookup == LookupInit /\ [][LookupNext]_vars

\* the first element of d whose scan number is n, as a sequence of at most
\* one element
FirstNumbered(d, n) ==
    LET S == {i \in 1..Len(d.elems) : ParseScanNumber(d.elems[i]) = Some(n)}
    IN  IF S = {} THEN <<>> ELSE <<CHOOSE i \in S : \A j \in S : i <= j>>

\* C7: scan(n) returns the first element in document order whose scan
\* number is n and nothing else; scan(None) returns the first element.
C7_ScanReturnsFirstMatch ==
    \A k \in 1..Len(cur) : (cur[k].mode = "scan" /\ Finished(cur[k])) =>
        /\ cur[k].status = "returned"
        /\ YieldedElements(cur[k]) =
              IF cur[k].req = NoneV THEN <<1>> ELSE FirstNumbered(xdoc, cur[k].req[1])


(***************************************************************************)
(* The Thermo reader (thermo_reader.py): parent-scan resolution over the   *)
(* answers of the vendor file accessor                                     *)
(***************************************************************************)

\* number of scans of the raw file
MaxScans == 3

\* a result: returned value v, or the exception raised, or "hangs" for a
\* loop that never ends; step names the stage of the cascade that gave v
Ok(v, step) == [raised |-> "", v |-> v, step |-> step]
Err(what, step) == [raised |-> what, v |-> NoneV, step |-> step]

\* Python truthiness of an optional number: None and 0 are false
Truthy(o) == o # NoneV /\ o[1] # 0

InFile(r, s) == s \in 1..Len(r.scans)

\* _retrieve_ms_level: the level, None on an accessor error or a value <= 0
RetrieveMsLevel(r, s) ==
    IF InFile(r, s) /\ r.scans[s].level # NoneV /\ r.scans[s].level[1] > 0
    THEN r.scans[s].level ELSE NoneV

\* _retrieve_scan_event_index, _retrieve_master_scan_event_index,
\* _retrieve_scan_cycle: int(value), None on an accessor error
RetrieveScanEventIndex(r, s) == IF InFile(r, s) THEN r.scans[s].event ELSE NoneV
RetrieveMasterScanEventIndex(r, s) == IF InFile(r, s) THEN r.scans[s].mevent ELSE NoneV
RetrieveScanCycle(r, s) == IF InFile(r, s) THEN r.scans[s].cycle ELSE NoneV

\* _retrieve_mass_range: (low, high); the error code is ignored and the
\* c_double()s keep 0.0
RetrieveMassRange(r, s) == IF InFile(r, s) THEN <<r.scans[s].lo, r.scans[s].hi>> ELSE <<0, 0>>

\* low_mz <= precursor_mz <= high_mz
InMassRange(rng, p) == rng[1] <= p /\ p <= rng[2]

\* the cache self._master_scan_numbers: per scan number, whether it is a
\* key and its value
NoMasters(n) == [s \in 1..n |-> [cached |-> FALSE, v |-> NoneV]]
IsCached(mst, s) == s \in 1..Len(mst) /\ mst[s].cached

\* the flags of thermo_reader.py
VALIDATE_MS_LEVEL == TRUE
FOLLOW_PRECURSOR == TRUE

\* _retrieve_parent_scan_number_by_trailer under given values of the two
\* flags.  seen holds the scans the recursion went through: coming back to
\* one of them recurses for ever (RecursionError).  The trailer value is
\* unreadable ("err": the accessor fails), None ("empty": int(None) raises
\* TypeError) or a number.
RECURSIVE ByTrailerWith(_, _, _, _, _, _, _)
ByTrailerWith(validate, follow, r, mst, s, lvl, seen) ==
    IF IsCached(mst, s) THEN Ok(mst[s].v, "trailer")
    ELSE IF ~InFile(r, s) \/ r.scans[s].trailer.st = "err" THEN Ok(NoneV, "trailer")
    ELSE IF r.scans[s].trailer.st = "empty" THEN Err("TypeError", "trailer")
    ELSE LET mn == r.scans[s].trailer.v
         IN  IF mn <= 0 THEN Ok(NoneV, "trailer")
             ELSE IF RetrieveMsLevel(r, mn) = Some(lvl) THEN Ok(Some(mn), "trailer")
             ELSE IF ~validate THEN Ok(Some(mn), "trailer")
             ELSE IF ~follow THEN Ok(NoneV, "trailer")
             ELSE IF mn \in seen THEN Err("RecursionError", "trailer")
             ELSE ByTrailerWith(validate, follow, r, mst, mn, lvl, seen \cup {mn})

\* _retrieve_parent_scan_number_by_trailer as the module has its flags
ByTrailer(r, mst, s, lvl, seen) ==
    ByTrailerWith(VALIDATE_MS_LEVEL, FOLLOW_PRECURSOR, r, mst, s, lvl, seen)

\* the while loop of _retrieve_parent_scan_number_by_event_index.  An
\* event index of None raises TypeError in `current_event_index > 1` or in
\* `current_event_index <= 1`.
RECURSIVE EventWalk(_, _, _, _, _)
EventWalk(r, current, ev, prec, lowest) ==
    IF current = 0 THEN Ok(NoneV, "event")
    ELSE LET ce == RetrieveScanEventIndex(r, current)
         IN  IF ce = NoneV THEN Err("TypeError", "event")
             ELSE IF lowest /\ ce[1] > 1 THEN Ok(NoneV, "event")
             ELSE IF ce[1] = ev /\ (~Truthy(prec) \/ InMassRange(RetrieveMassRange(r, current), prec[1]))
                  THEN Ok(Some(current), "event")
             ELSE EventWalk(r, current - 1, ev, prec, ce[1] <= 1)

\* _retrieve_parent_scan_number_by_event_index
ByEventIndex(r, mst, s, ev, prec) ==
    IF IsCached(mst, s) THEN Ok(mst[s].v, "event")
    ELSE EventWalk(r, s - 1, ev, prec, FALSE)


\* a candidate of the right level is taken whatever its mass range
AcceptsAny(r, cand, prec) == TRUE

\* "check mass range" of _retrieve_parent_scan_number_by_ms_level:
\*   not precursor_mz or (low_mz <= precursor_mz <= high_mz) or is_dia
\* with is_dia = self._inst_methods and "DIAScan" in self._inst_methods
AcceptsCandidate(r, cand, prec) ==
    \/ ~Truthy(prec)
    \/ InMassRange(RetrieveMassRange(r, cand), prec[1])
    \/ r.dia

\* the while loop of _retrieve_parent_scan_number_by_ms_level.  Past the
\* last scan the accessors answer nothing: when the cycle of the queried
\* scan is None too, no candidate ever differs in cycle or has the level,
\* and the forward loop never ends.
RECURSIVE LevelWalk(_, _, _, _, _, _)
LevelWalk(r, cand, cycle, lvl, prec, dir) ==
    IF cand = 0 THEN Ok(NoneV, "level")
    ELSE IF RetrieveScanCycle(r, cand) # cycle THEN Ok(NoneV, "level")
    ELSE IF ~InFile(r, cand) THEN Err("hangs", "level")
    ELSE IF RetrieveMsLevel(r, cand) # Some(lvl) THEN LevelWalk(r, cand + dir, cycle, lvl, prec, dir)
    ELSE IF AcceptsCandidate(r, cand, prec) THEN Ok(Some(cand), "level")
    ELSE LevelWalk(r, cand + dir, cycle, lvl, prec, dir)

\* _retrieve_parent_scan_number_by_ms_level
ByMsLevel(r, mst, s, lvl, prec, dir) ==
    IF IsCached(mst, s) THEN Ok(mst[s].v, "level")
    ELSE LevelWalk(r, s + dir, RetrieveScanCycle(r, s), lvl, prec, dir)

\* scan_data['precursor_mz'] as _retrieve_precursor_data leaves it
PrecursorMz(r, s) == IF InFile(r, s) THEN r.scans[s].precursor ELSE NoneV

\* the stages of _retrieve_parent_scan_number after the level check, each
\* tried only when the one before gave None
TryEventIndex(r, mst, s, prec) ==
    IF Truthy(RetrieveScanEventIndex(r, s)) /\ Truthy(RetrieveMasterScanEventIndex(r, s))
    THEN ByEventIndex(r, mst, s, RetrieveMasterScanEventIndex(r, s)[1], prec)
    ELSE Ok(NoneV, "event")

\* a cascade that tries the forward search before the backward one
ForwardFirst(r, mst, s, lvl, prec) ==
    LET t == ByTrailer(r, mst, s, lvl, {s})
        e == TryEventIndex(r, mst, s, prec)
        b == ByMsLevel(r, mst, s, lvl, prec, 0 - 1)
        f == ByMsLevel(r, mst, s, lvl, prec, 1)
    IN  IF t.raised # "" \/ t.v # NoneV THEN t
        ELSE IF e.raised # "" \/ e.v # NoneV THEN e
        ELSE IF f.raised # "" \/ f.v # NoneV THEN [f EXCEPT !.step = "forward"]
        ELSE IF b.raised # "" \/ b.v # NoneV THEN [b EXCEPT !.step = "backward"]
        ELSE Ok(NoneV, "none")

Cascade(r, mst, s, lvl, prec) ==
    LET t == ByTrailer(r, mst, s, lvl, {s})
        e == TryEventIndex(r, mst, s, prec)
        b == ByMsLevel(r, mst, s, lvl, prec, 0 - 1)
        f == ByMsLevel(r, mst, s, lvl, prec, 1)
    IN  IF t.raised # "" \/ t.v # NoneV THEN t
        ELSE IF e.raised # "" \/ e.v # NoneV THEN e
        ELSE IF b.raised # "" \/ b.v # NoneV THEN [b EXCEPT !.step = "backward"]
        ELSE IF f.raised # "" \/ f.v # NoneV THEN [f EXCEPT !.step = "forward"]
        ELSE Ok(NoneV, "none")

\* _retrieve_parent_scan_number: `master_ms_level = ms_level - 1` comes
\* before the level check and raises TypeError on a level of None; a level
\* below 2 returns at once, leaving the cache alone
RetrieveParentScanNumber(r, mst, s) ==
    LET lvl == RetrieveMsLevel(r, s)
    IN  IF lvl = NoneV THEN Err("TypeError", "level check")
        ELSE IF lvl[1] < 2 THEN Ok(NoneV, "level check")
        ELSE Cascade(r, mst, s, lvl[1] - 1, PrecursorMz(r, s))

\* the cache after the call: the last statement stores the result
StoreMaster(mst, s, res) ==
    IF res.raised = "" /\ res.step # "level check"
    THEN [mst EXCEPT ![s] = [cached |-> TRUE, v |-> res.v]]
    ELSE mst

\* the header of scan s is retrieved (header(s), scan(s), or a step of
\* headers()/scans()): its parent is resolved
ResolveParent(s) ==
    /\ raw # <<>>
    /\ s \in 1..Len(raw.scans)
    /\ LET res == RetrieveParentScanNumber(raw, masters, s)
       IN  /\ lin' = [scan |-> s, res |-> res]
           /\ masters' = StoreMaster(masters, s, res)
    /\ UNCHANGED <<raw, isOpened, gens>>
    /\ UNCHANGED nonThermoVars

\* what the accessor answers for one scan
RawScan(level, trailer, event, mevent, cycle, lo, hi, precursor) ==
    [level |-> level, trailer |-> trailer, event |-> event, mevent |-> mevent,
     cycle |-> cycle, lo |-> lo, hi |-> hi, precursor |-> precursor]
TrailerErr == [st |-> "err", v |-> 0]
TrailerEmpty == [st |-> "empty", v |-> 0]
TrailerVal(n) == [st |-> "val", v |-> n]

\* files whose accessor may fail to answer: level, trailer master scan,
\* event indexes and (for the whole file) the cycle
LineageScans(hasCycle) ==
    {RawScan(l, t, ev[1], ev[2], IF hasCycle THEN Some(1) ELSE NoneV, 400, 1200, NoneV) :
        l \in {NoneV, Some(1), Some(2)},
        t \in {TrailerErr, TrailerEmpty, TrailerVal(0), TrailerVal(1)},
        ev \in {<<NoneV, NoneV>>, <<Some(1), NoneV>>, <<Some(2), Some(1)>>}}

LineageInit ==
    /\ MlIdle
    /\ XmlIdle
    /\ \E hasCycle \in BOOLEAN :
           raw \in {[scans |-> f, dia |-> FALSE] : f \in [1..MaxScans -> LineageScans(hasCycle)]}
    /\ masters = NoMasters(MaxScans)
    /\ lin = <<>>
    /\ isOpened = FALSE
    /\ gens = <<>>
    /\ PureIdle

LineageNext == \E s \in 1..MaxScans : ResolveParent(s)

SpecLineage == LineageInit /\ [][LineageNext]_vars

\* C8: resolving the parent of a scan never raises, whatever the accessor
\* answers; an undetermined parent is absent.
C8_ResolutionNeverRaises ==
    lin # <<>> => lin.res.raised \notin {"TypeError", "RecursionError"}

\* C16: every parent-scan resolution terminates: none of its steps goes on
\* for ever, whatever the accessor answers.
C16_ResolutionTerminates ==
    lin # <<>> => lin.res.raised # "hangs"

\* the four steps for scan s of level lvl + 1 on a reader whose cache is
\* mst, each taken on its own, in the order trailer, event index, backward,
\* forward
StepResults(r, mst, s, lvl) ==
    <<ByTrailer(r, mst, s, lvl, {s}),
      TryEventIndex(r, mst, s, PrecursorMz(r, s)),
      ByMsLevel(r, mst, s, lvl, PrecursorMz(r, s), 0 - 1),
      ByMsLevel(r, mst, s, lvl, PrecursorMz(r, s), 1)>>

StepNames == <<"trailer", "event", "backward", "forward">>

\* a step succeeded (or left the cascade by an exception)
Decides(res) == res.raised # "" \/ res.v # NoneV

\* C21: the cascade is ordered and the first success wins: the parent
\* resolved for a scan of level 2 or higher is the result of the first of
\* trailer, event index, backward and forward that gives one, a step after
\* it has no part in the outcome, and the parent is absent if none gives
\* one; the parent of a scan of level 1 is absent.
C21_FirstSuccessWins ==
    [][lin' # lin =>
          LET s == lin'.scan
              lvl == RetrieveMsLevel(raw, s)
              steps == StepResults(raw, masters, s, lvl[1] - 1)
              first == {i \in 1..4 : Decides(steps[i]) /\ \A j \in 1..(i - 1) : ~Decides(steps[j])}
          IN  /\ lvl = Some(1) => (lin'.res.raised = "" /\ lin'.res.v = NoneV)
              /\ (lvl # NoneV /\ lvl[1] >= 2) =>
                    /\ \A i \in first :
                          /\ lin'.res.step = StepNames[i]
                          /\ lin'.res.v = steps[i].v
                          /\ lin'.res.raised = steps[i].raised
                    /\ first = {} => (lin'.res.raised = "" /\ lin'.res.v = NoneV)]_vars

\* the scenario: trailer and event index give nothing, the backward search
\* finds the parent
C21_Witness ==
    /\ lin # <<>>
    /\ RetrieveMsLevel(raw, lin.scan) = Some(2)
    /\ lin.res.step = "backward"
    /\ lin.res.v # NoneV
    /\ ~IsCached(NoMasters(MaxScans), lin.scan)


(***************************************************************************)
(* Nearest matching-level scan: files without trailer master scan and      *)
(* without event indexes, so that the resolution comes down to the search  *)
(* by MS level                                                             *)
(***************************************************************************)

NearestScans ==
    {RawScan(Some(l), TrailerErr, NoneV, NoneV, Some(c), rng[1], rng[2], p) :
        l \in 1..3, c \in 1..2, rng \in {<<400, 1200>>, <<600, 1200>>},
        p \in {NoneV, Some(500)}}

\* scans are numbered in acquisition order: the cycle never decreases
NearestInit ==
    /\ MlIdle
    /\ XmlIdle
    /\ raw \in {[scans |-> f, dia |-> d] : f \in [1..MaxScans -> NearestScans], d \in BOOLEAN}
    /\ \A i \in 1..(MaxScans - 1) : raw.scans[i].cycle[1] <= raw.scans[i + 1].cycle[1]
    /\ masters = NoMasters(MaxScans)
    /\ lin = <<>>
    /\ isOpened = FALSE
    /\ gens = <<>>
    /\ PureIdle

NearestNext == \E s \in 1..MaxScans : ResolveParent(s)

SpecNearest == NearestInit /\ [][NearestNext]_vars

\* scan c is in the cycle of scan s, one level above it, and its mass range
\* contains the precursor m/z of s, unless that is unknown or the
\* acquisition is data-independent
IsParentCandidate(r, s, c) ==
    /\ c # s
    /\ r.scans[c].cycle = r.scans[s].cycle
    /\ r.scans[c].level = Some(r.scans[s].level[1] - 1)
    /\ \/ r.scans[s].precursor = NoneV
       \/ r.dia
       \/ (r.scans[c].lo <= r.scans[s].precursor[1] /\ r.scans[s].precursor[1] <= r.scans[c].hi)

\* the nearest candidate before s, else the nearest after s, else None
NearestParent(r, s) ==
    LET B == {c \in 1..(s - 1) : IsParentCandidate(r, s, c)}
        F == {c \in (s + 1)..Len(r.scans) : IsParentCandidate(r, s, c)}
    IN  IF B # {} THEN Some(CHOOSE c \in B : \A x \in B : x <= c)
        ELSE IF F # {} THEN Some(CHOOSE c \in F : \A x \in F : c <= x)
        ELSE NoneV

\* C9: without trailer master and event indexes, a scan of level 2 or more
\* resolves to the nearest scan before it, else the nearest after it, that
\* is in its cycle, one level above it and whose mass range contains its
\* precursor m/z (not required when the precursor m/z is unknown or the
\* acquisition is data-independent), and to none when there is no such scan.
C9_NearestMatchingLevel ==
    (lin # <<>> /\ raw.scans[lin.scan].level[1] >= 2) =>
        /\ lin.res.raised = ""
        /\ lin.res.v = NearestParent(raw, lin.scan)

\* the scenario: the last scan, level 2, precursor 500, is resolved to the
\* scan before it, level 1 with range [400, 1200], by the backward search
\* of a file that is not data-independent
C9_Witness ==
    /\ lin # <<>>
    /\ lin.scan = MaxScans
    /\ ~raw.dia
    /\ raw.scans[lin.scan].level = Some(2)
    /\ raw.scans[lin.scan].precursor = Some(500)
    /\ raw.scans[lin.scan - 1].level = Some(1)
    /\ raw.scans[lin.scan - 1].lo = 400
    /\ raw.scans[lin.scan - 1].hi = 1200
    /\ lin.res.step = "backward"
    /\ lin.res.v = Some(lin.scan - 1)


(***************************************************************************)
(* The Thermo reader: the file is opened and closed around headers() and   *)
(* scans()                                                                 *)
(***************************************************************************)

\* calls made on one reader
MaxGens == 2

\* ThermoReader.open: returns True if the file is newly opened
OpenReturns(opened) == ~opened

\* a headers()/scans() generator: none of its code has run before the
\* first next(); should_close is its local variable, pos the next scan
NewGen(mode) ==
    [mode |-> mode, status |-> "fresh", started |-> FALSE, should_close |-> FALSE, pos |-> 1]

IsLive(g) == g.status \in {"fresh", "suspended"}

\* headers(...) / scans(...) is called while no other iteration is going on
ThermoCallIter(mode) ==
    /\ raw # <<>>
    /\ Len(gens) < MaxGens
    /\ \A k \in 1..Len(gens) : ~IsLive(gens[k])
    /\ gens' = Append(gens, NewGen(mode))
    /\ UNCHANGED <<raw, masters, lin, isOpened>>
    /\ UNCHANGED nonThermoVars

\* next() on the generator.  The first one runs `should_close =
\* self.open()`.  Then the loop goes on with scan pos: its header data are
\* retrieved, the parent resolution included, and the scan is yielded, or
\* an exception leaves the generator; after the last scan the file is
\* closed if should_close, and the generator ends.
ThermoAdvance(k) ==
    /\ k \in 1..Len(gens)
    /\ IsLive(gens[k])
    /\ LET g == gens[k]
           sc == IF g.status = "fresh" THEN OpenReturns(isOpened) ELSE g.should_close
           op == IF g.status = "fresh" THEN TRUE ELSE isOpened
           g1 == [g EXCEPT !.started = TRUE, !.should_close = sc]
           res == RetrieveParentScanNumber(raw, masters, g.pos)
       IN  IF g.pos > Len(raw.scans)
           THEN /\ gens' = [gens EXCEPT ![k] = [g1 EXCEPT !.status = "done"]]
                /\ isOpened' = IF sc THEN FALSE ELSE op
                /\ UNCHANGED <<masters, lin>>
           ELSE /\ gens' = [gens EXCEPT ![k] =
                              IF res.raised # "" THEN [g1 EXCEPT !.status = "raised"]
                              ELSE [g1 EXCEPT !.status = "suspended", !.pos = @ + 1]]
                /\ isOpened' = op
                /\ masters' = StoreMaster(masters, g.pos, res)
                /\ lin' = [scan |-> g.pos, res |-> res]
    /\ UNCHANGED raw
    /\ UNCHANGED nonThermoVars

\* the caller drops the generator before it is exhausted (break out of the
\* for loop, or generator.close()): GeneratorExit is raised at the yield, or
\* nothing runs at all if it never started; no try/finally catches it
ThermoAbandon(k) ==
    /\ k \in 1..Len(gens)
    /\ IsLive(gens[k])
    /\ gens' = [gens EXCEPT ![k].status = "abandoned"]
    /\ UNCHANGED <<raw, masters, lin, isOpened>>
    /\ UNCHANGED nonThermoVars

\* files with no trailer master and no event indexes, the level of a scan
\* possibly unavailable
FileScans ==
    {RawScan(l, TrailerErr, NoneV, NoneV, Some(1), 400, 1200, NoneV) : l \in {NoneV, Some(1), Some(2)}}

ThermoFileInit ==
    /\ MlIdle
    /\ XmlIdle
    /\ raw \in {[scans |-> f, dia |-> FALSE] : f \in [1..MaxScans -> FileScans]}
    /\ masters = NoMasters(MaxScans)
    /\ lin = <<>>
    /\ isOpened = FALSE
    /\ gens = <<>>
    /\ PureIdle

ThermoFileNext ==
    \/ \E mode \in {"headers", "scans"} : ThermoCallIter(mode)
    \/ \E k \in 1..Len(gens) : ThermoAdvance(k)
    \/ \E k \in 1..Len(gens) : ThermoAbandon(k)

SpecThermoFile == ThermoFileInit /\ [][ThermoFileNext]_vars

\* C10: as long as no iteration ended by an exception, the file is closed
\* whenever no iteration is under way (exhausted or abandoned, each closed
\* what it opened), and so every iteration that started opened the file
\* itself.
C10_ClosedOnEveryExitPath ==
    (\A k \in 1..Len(gens) : gens[k].status # "raised") =>
        /\ (\A k \in 1..Len(gens) : gens[k].status # "suspended") => ~isOpened
        /\ \A k \in 1..Len(gens) : gens[k].started => gens[k].should_close


(***************************************************************************)
(* Several calls on one ThermoReader at a time: each keeps its own         *)
(* should_close, all share _is_opened.                                     *)
(***************************************************************************)

\* headers(...) / scans(...) is called, whatever else is going on: one more
\* generator, none of whose code has run yet
ThermoCallIterMeanwhile(mode) ==
    /\ raw # <<>>
    /\ Len(gens) < MaxGens
    /\ gens' = Append(gens, NewGen(mode))
    /\ UNCHANGED <<raw, masters, lin, isOpened>>
    /\ UNCHANGED nonThermoVars

\* scan(scan_number) or header(scan_number), run to the return:
\* should_close = self.open(), the header data of the scan, close if
\* should_close
ThermoLookup(s) ==
    /\ raw # <<>>
    /\ s \in 1..Len(raw.scans)
    /\ \E res \in {RetrieveParentScanNumber(raw, masters, s)} :
          /\ masters' = StoreMaster(masters, s, res)
          /\ lin' = [scan |-> s, res |-> res]
          /\ isOpened' = IF res.raised # "" THEN TRUE
                         ELSE IF OpenReturns(isOpened) THEN FALSE ELSE isOpened
    /\ UNCHANGED <<raw, gens>>
    /\ UNCHANGED nonThermoVars

\* files of MS1 scans only: no parent is looked for
SharedInit ==
    /\ MlIdle
    /\ XmlIdle
    /\ raw \in {[scans |-> [i \in 1..n |-> RawScan(Some(1), TrailerErr, NoneV, NoneV, Some(1), 400, 1200, NoneV)],
                 dia |-> FALSE] : n \in 1..MaxScans}
    /\ masters = NoMasters(MaxScans)
    /\ lin = <<>>
    /\ isOpened = FALSE
    /\ gens = <<>>
    /\ PureIdle

SharedNext ==
    \/ \E mode \in {"headers", "scans"} : ThermoCallIterMeanwhile(mode)
    \/ \E k \in 1..Len(gens) : ThermoAdvance(k)
    \/ \E s \in 1..MaxScans : ThermoLookup(s)

SpecShared == SharedInit /\ [][SharedNext]_vars

\* C26: the file of a ThermoReader is open as long as an iteration that
\* has emitted a scan is not over: the call that opened it closes it only
\* when every call begun meanwhile has ended, so none goes on to read from a
\* closed file.
C26_OpenWhileEmitting ==
    \A k \in 1..Len(gens) : gens[k].status = "suspended" => isOpened

(***************************************************************************)
(* Malformed payloads: scans() of the mzML reader over documents some of   *)
(* whose spectra carry arrays that cannot be decoded                       *)
(***************************************************************************)

\* the m/z and intensity arrays of a spectrum: well formed (plain or
\* deflated), a byte count that is no multiple of the float width, arrays
\* of different length, bytes tagged as deflated that do not inflate
Payloads ==
    {WellFormedPayload(1),
     <<BinArr("mz_array", 4, 4, 32, "zlib", "zlib"), BinArr("int_array", 4, 4, 32, "zlib", "zlib")>>,
     <<BinArr("mz_array", 6, 4, 32, None, "raw"), BinArr("int_array", 4, 4, 32, None, "raw")>>,
     <<BinArr("mz_array", 8, 4, 32, None, "raw"), BinArr("int_array", 4, 4, 32, None, "raw")>>,
     <<BinArr("mz_array", 4, 4, 32, "zlib", "corrupt"), BinArr("int_array", 4, 4, 32, None, "raw")>>}

MalformedDocs ==
    {FlatDoc("mzML", "nodp",
             [i \in 1..MaxEl |-> [Elem("num", i, NoneV, NoneV, NoneV, a[i][1], 1) EXCEPT !.payload = a[i][2]]]) :
        a \in [1..MaxEl -> Kinds \X Payloads]}

MalformedInit ==
    /\ MlIdle
    /\ ThermoIdle
    /\ PureIdle
    /\ xdoc \in MalformedDocs
    /\ hier = <<>>
    /\ stype = None
    /\ cur = <<>>

MalformedNext ==
    \/ \E dtype \in Kinds : CallIter("scans", NoFilter, dtype)
    \/ \E k \in 1..Len(cur) : Advance(k)

SpecMalformed == MalformedInit /\ [][MalformedNext]_vars

\* an array as its tags describe it: whole floats of the tagged width,
\* deflated exactly when tagged so
IsWellFormedArray(a) ==
    /\ a.len % a.truew = 0
    /\ a.truew = (IF a.precision = 64 THEN 8 ELSE IF a.precision = 16 THEN 2 ELSE 4)
    /\ a.packed = (IF a.compression = "zlib" THEN "zlib" ELSE "raw")

\* a spectrum all of whose arrays are well formed and of the same length
IsWellFormed(e) ==
    /\ \A j \in 1..Len(e.payload) : IsWellFormedArray(e.payload[j])
    /\ \A j, k \in 1..Len(e.payload) :
           e.payload[j].len \div e.payload[j].truew = e.payload[k].len \div e.payload[k].truew

\* C11: a scans() pass that is over has yielded every well-formed scan of
\* the document, those after a malformed one included, and no scan whose
\* points differ from the ones written.
C11_MalformedFailsOnlyItsScan ==
    \A k \in 1..Len(cur) : (cur[k].mode = "scans" /\ Finished(cur[k])) =>
        /\ \A i \in 1..Len(xdoc.elems) :
               IsWellFormed(xdoc.elems[i]) => \E j \in 1..Len(cur[k].out) : cur[k].out[j].el = i
        /\ \A j \in 1..Len(cur[k].out) : cur[k].out[j].intact


(***************************************************************************)
(* The peak codec on its own: MZMLReader._retrieve_spectrum_data and       *)
(* _parse_points applied to the binaryDataArray elements of one spectrum   *)
(***************************************************************************)

\* the width the writer used for a precision tag (no tag: 32-bit)
WidthOfTag(prec) == IF prec = 64 THEN 8 ELSE IF prec = 16 THEN 2 ELSE 4

\* arrays of 8, 12 or 16 bytes, tagged 16-, 32-, 64-bit or not at all,
\* untagged, tagged uncompressed, or tagged zlib and deflated or damaged
CodecArrays(type) ==
    {BinArr(type, len, WidthOfTag(prec), prec, c[1], c[2]) :
        len \in {8, 12, 16}, prec \in {0, 16, 32, 64},
        c \in {<<None, "raw">>, <<"none", "raw">>, <<"zlib", "zlib">>, <<"zlib", "corrupt">>}}

\* the optional signal-to-noise array
CodecSnArrays ==
    {<<>>} \cup {<<BinArr("sn_array", len, WidthOfTag(prec), prec, c[1], c[2])>> :
                    len \in {8, 16}, prec \in {32, 64}, c \in {<<None, "raw">>, <<"zlib", "zlib">>}}

CodecInit ==
    /\ MlIdle
    /\ XmlIdle
    /\ ThermoIdle
    /\ pin \in {[fn |-> "parse_points", arrays |-> <<a, b>> \o c, kind |-> k] :
                   a \in CodecArrays("mz_array"), b \in CodecArrays("int_array"),
                   c \in CodecSnArrays, k \in Kinds}
    /\ pout = <<>>

\* the arrays of the spectrum are stored into scan_data and parsed
DecodePoints ==
    /\ pin # <<>>
    /\ pin.fn = "parse_points"
    /\ pout = <<>>
    /\ pout' = ParsePoints(StoreArrays(NoArrays, pin.arrays), pin.kind)
    /\ UNCHANGED pin
    /\ UNCHANGED nonPureVars

CodecNext == DecodePoints

SpecCodec == CodecInit /\ [][CodecNext]_vars

\* C12: decoding a spectrum with an array tagged 16-bit fails with an
\* error.
C12_SixteenBitFails ==
    (pout # <<>> /\ \E j \in 1..Len(pin.arrays) : pin.arrays[j].precision = 16)
        => pout.raised # ""

\* the decode of one array by its own tags alone: the error, or the number
\* of floats
OwnDecode(a) ==
    IF a.compression = "zlib" /\ a.packed # "zlib" THEN [raised |-> "zlib.error", n |-> 0]
    ELSE IF a.len % (IF a.precision = 64 THEN 8 ELSE 4) # 0 THEN [raised |-> "struct.error", n |-> 0]
    ELSE [raised |-> "", n |-> a.len \div (IF a.precision = 64 THEN 8 ELSE 4)]

OwnCounts(arrays) ==
    <<OwnDecode(arrays[1]).n, OwnDecode(arrays[2]).n,
      IF Len(arrays) = 3 THEN OwnDecode(arrays[3]).n ELSE 0>>

\* C13: each array of a spectrum is inflated and unpacked by its own tags:
\* a decode that succeeds gives each array the float count its own tags
\* give, and a decode fails exactly when some array fails by its own tags
\* (or the m/z and intensity columns of a profile differ in length).
C13_OwnTagsOnly ==
    pout # <<>> =>
        /\ pout.raised = "" => pout.counts = OwnCounts(pin.arrays)
        /\ pout.raised \in {"zlib.error", "struct.error"}
              <=> \E j \in 1..Len(pin.arrays) : OwnDecode(pin.arrays[j]).raised # ""
        /\ pout.raised \in {"zlib.error", "struct.error"}
              => \E j \in 1..Len(pin.arrays) : OwnDecode(pin.arrays[j]).raised = pout.raised

\* C22: the number of points decoded for a scan is the decoded length of
\* its m/z array; a missing or shorter s/n array is filled with zeros and
\* does not shorten the result.
C22_PointsAreMzLength ==
    (pin # <<>> /\ pin.fn = "parse_points" /\ pout # <<>> /\ pout.raised = "") =>
        pout.n = pout.counts[1]

\* the scenario: intensity deflated and 64-bit next to m/z uncompressed
\* and 32-bit, decoded to two m/z values and two intensities
C13_Witness ==
    /\ pout # <<>>
    /\ pin.arrays[1] = BinArr("mz_array", 8, 4, 32, "none", "raw")
    /\ pin.arrays[2] = BinArr("int_array", 16, 8, 64, "zlib", "zlib")
    /\ pout.raised = ""
    /\ pout.counts = <<2, 2, 0>>
    /\ pout.n = 2
    /\ pout.exact

(***************************************************************************)
(* The vocabulary mappers: MZMLReader._parse_cv_param and                  *)
(* MZDataReader._parse_cv_param.                                           *)
(***************************************************************************)

\* one "if accession == ... [and value] [and unit_accession == ...]: return
\* field, expression" of a mapper, under the context block it stands in.
\* val is "any" (no test of the value), "nonempty" (and value) or the text
\* the value must equal; unit is "" where the unit is not tested.
CvRule(ctx, acc, val, unit, field, conv, c) ==
    [ctx |-> ctx, acc |-> acc, val |-> val, unit |-> unit, field |-> field, conv |-> conv, c |-> c]

\* MZMLReader._parse_cv_param: its rules, in the order of the code
MzmlCvRules == <<
    CvRule("binary", "MS:1000523", "any", "", "precision", "const", "64"),
    CvRule("binary", "MS:1000521", "any", "", "precision", "const", "32"),
    CvRule("binary", "MS:1000520", "any", "", "precision", "const", "16"),
    CvRule("binary", "MS:1000574", "any", "", "compression", "const", "zlib"),
    CvRule("binary", "MS:1000576", "any", "", "compression", "const", "False"),
    CvRule("binary", "MS:1000514", "any", "", "array_type", "const", "mz_array"),
    CvRule("binary", "MS:1000515", "any", "", "array_type", "const", "int_array"),
    CvRule("binary", "MS:1000517", "any", "", "array_type", "const", "sn_array"),
    CvRule("spectrum", "MS:1000127", "any", "", "spectrum_type", "const", "CENTROIDS"),
    CvRule("spectrum", "MS:1000128", "any", "", "spectrum_type", "const", "PROFILE"),
    CvRule("spectrum", "MS:1000511", "nonempty", "", "ms_level", "int", ""),
    CvRule("spectrum", "MS:1000130", "any", "", "polarity", "const", "POSITIVE"),
    CvRule("spectrum", "MS:1000129", "any", "", "polarity", "const", "NEGATIVE"),
    CvRule("spectrum", "MS:1000285", "nonempty", "", "tic", "max0", ""),
    CvRule("spectrum", "MS:1000504", "nonempty", "", "basepeak_mz", "float", ""),
    CvRule("spectrum", "MS:1000505", "nonempty", "", "basepeak_intensity", "max0", ""),
    CvRule("spectrum", "MS:1000501", "nonempty", "", "low_mz", "float", ""),
    CvRule("spectrum", "MS:1000500", "nonempty", "", "high_mz", "float", ""),
    CvRule("spectrum", "MS:1000016", "nonempty", "UO:0000031", "retention_time", "float60", ""),
    CvRule("spectrum", "MS:1000016", "nonempty", "UO:0000010", "retention_time", "float", ""),
    CvRule("spectrum", "MS:1000016", "nonempty", "", "retention_time", "float60", ""),
    CvRule("spectrum", "MS:1000800", "nonempty", "", "resolution", "int", ""),
    CvRule("spectrum", "MS:1000512", "nonempty", "", "scan_filter", "str", ""),
    CvRule("spectrum", "MS:1000927", "nonempty", "UO:0000028", "injection_time", "float", ""),
    CvRule("precursor", "MS:1000744", "nonempty", "", "precursor_mz", "float", ""),
    CvRule("precursor", "MS:1000827", "nonempty", "", "precursor_target_mz", "float", ""),
    CvRule("precursor", "MS:1000793", "nonempty", "", "precursor_low_mz", "float", ""),
    CvRule("precursor", "MS:1000794", "nonempty", "", "precursor_high_mz", "float", ""),
    CvRule("precursor", "MS:1000828", "nonempty", "", "precursor_lower_offset", "float", ""),
    CvRule("precursor", "MS:1000829", "nonempty", "", "precursor_upper_offset", "float", ""),
    CvRule("precursor", "MS:1000023", "nonempty", "MS:1000040", "precursor_width", "float", ""),
    CvRule("precursor", "MS:1000042", "nonempty", "MS:1000131", "precursor_intensity", "float", ""),
    CvRule("precursor", "MS:1000041", "nonempty", "", "precursor_charge", "int", ""),
    CvRule("precursor", "MS:1000633", "nonempty", "", "precursor_charge", "int", ""),
    CvRule("precursor", "MS:1000509", "nonempty", "UO:0000266", "activation_energy", "float", ""),
    CvRule("precursor", "MS:1000045", "nonempty", "UO:0000266", "activation_energy", "float", ""),
    CvRule("precursor", "MS:1000133", "any", "", "dissociation_method", "const", "CID"),
    CvRule("precursor", "MS:1000134", "any", "", "dissociation_method", "const", "PD"),
    CvRule("precursor", "MS:1000135", "any", "", "dissociation_method", "const", "PSD"),
    CvRule("precursor", "MS:1000136", "any", "", "dissociation_method", "const", "SID"),
    CvRule("precursor", "MS:1000242", "any", "", "dissociation_method", "const", "BIRD"),
    CvRule("precursor", "MS:1000250", "any", "", "dissociation_method", "const", "ECD"),
    CvRule("precursor", "MS:1000262", "any", "", "dissociation_method", "const", "IRMPD"),
    CvRule("precursor", "MS:1000282", "any", "", "dissociation_method", "const", "SORI"),
    CvRule("precursor", "MS:1000422", "any", "", "dissociation_method", "const", "HCD"),
    CvRule("precursor", "MS:1000433", "any", "", "dissociation_method", "const", "LCD"),
    CvRule("instrument", "MS:1000028", "nonempty", "", "resolution", "int", ""),
    CvRule("instrument", "MS:1000071", "any", "", "ionization_source", "const", "CI"),
    CvRule("instrument", "MS:1000073", "any", "", "ionization_source", "const", "ESI"),
    CvRule("instrument", "MS:1000074", "any", "", "ionization_source", "const", "FAB"),
    CvRule("instrument", "MS:1000227", "any", "", "ionization_source", "const", "MPI"),
    CvRule("instrument", "MS:1000240", "any", "", "ionization_source", "const", "API"),
    CvRule("instrument", "MS:1000247", "any", "", "ionization_source", "const", "DI"),
    CvRule("instrument", "MS:1000446", "any", "", "ionization_source", "const", "FIB"),
    CvRule("instrument", "MS:1000258", "any", "", "ionization_source", "const", "FI"),
    CvRule("instrument", "MS:1000273", "any", "", "ionization_source", "const", "PI"),
    CvRule("instrument", "MS:1000276", "any", "", "ionization_source", "const", "REMPI"),
    CvRule("instrument", "MMS:1000079", "any", "", "mass_analyzer", "const", "FTICR"),
    CvRule("instrument", "MS:1000080", "any", "", "mass_analyzer", "const", "Sector"),
    CvRule("instrument", "MS:1000081", "any", "", "mass_analyzer", "const", "Quadrupole"),
    CvRule("instrument", "MS:1000084", "any", "", "mass_analyzer", "const", "TOF"),
    CvRule("instrument", "MS:1000264", "any", "", "mass_analyzer", "const", "IT"),
    CvRule("instrument", "MS:1000284", "any", "", "mass_analyzer", "const", "SWIFT"),
    CvRule("instrument", "MS:1000484", "any", "", "mass_analyzer", "const", "Orbitrap") >>

\* MZDataReader._parse_cv_param: its rules, in the order of the code
MzdataCvRules == <<
    CvRule("spectrum", "PSI:1000037", "Positive", "", "polarity", "const", "POSITIVE"),
    CvRule("spectrum", "PSI:1000037", "Negative", "", "polarity", "const", "NEGATIVE"),
    CvRule("spectrum", "PSI:1000038", "nonempty", "", "retention_time", "float60", ""),
    CvRule("precursor", "PSI:1000040", "nonempty", "", "precursor_mz", "float", ""),
    CvRule("precursor", "PSI:1000042", "nonempty", "", "precursor_intensity", "float", ""),
    CvRule("precursor", "PSI:1000041", "nonempty", "", "precursor_charge", "int", ""),
    CvRule("precursor", "PSI:1000044", "nonempty", "", "dissociation_method", "str", "") >>

\* the value texts of a cvParam tried here, and what int() and float() make
\* of them
CvValues == {"", "2", "-1", "x", "Positive", "Negative"}
IsNumeric(value) == value \in {"2", "-1"}
ToNumber(value) == IF value = "2" THEN 2 ELSE 0 - 1

\* no assignment: return None, None
NoAssign == [raised |-> "", field |-> None, kind |-> None, s |-> "", n |-> 0]

Assign(field, kind, s, n) == [raised |-> "", field |-> field, kind |-> kind, s |-> s, n |-> n]

\* the expression a rule returns: a constant, the value itself, int(value),
\* float(value), float(value)*60 or max(0.0, float(value))
Convert(rule, value) ==
    IF rule.conv = "const" THEN Assign(rule.field, "const", rule.c, 0)
    ELSE IF rule.conv = "str" THEN Assign(rule.field, "str", value, 0)
    ELSE IF ~IsNumeric(value) THEN [NoAssign EXCEPT !.raised = "ValueError"]
    ELSE IF rule.conv = "int" THEN Assign(rule.field, "int", "", ToNumber(value))
    ELSE IF rule.conv = "float" THEN Assign(rule.field, "float", "", ToNumber(value))
    ELSE IF rule.conv = "float60" THEN Assign(rule.field, "float", "", ToNumber(value) * 60)
    ELSE Assign(rule.field, "float", "", IF ToNumber(value) > 0 THEN ToNumber(value) ELSE 0)

\* the condition of one rule: its context block is entered (if not context
\* or context == ...) and its tests hold
RuleApplies(rule, context, accession, value, unit) ==
    /\ context = None \/ context = "" \/ context = rule.ctx
    /\ accession = rule.acc
    /\ rule.val = "any" \/ (rule.val = "nonempty" /\ value # "") \/ value = rule.val
    /\ rule.unit = "" \/ unit = rule.unit

\* a mapper that answers by what the reader holds
StickyMapper(self, rules, context, accession, value, unit) ==
    IF self = None THEN NoAssign ELSE Assign("spectrum_type", "const", self, 0)

\* _parse_cv_param: the first rule that applies returns; return None, None
\* at the end. self is the reader the method is called on.
ParseCvParam(self, rules, context, accession, value, unit) ==
    LET hits == {i \in 1..Len(rules) : RuleApplies(rules[i], context, accession, value, unit)}
    IN  IF hits = {} THEN NoAssign
        ELSE Convert(rules[CHOOSE i \in hits : \A j \in hits : i <= j], value)

RulesOf(fmt) == IF fmt = "mzML" THEN MzmlCvRules ELSE MzdataCvRules

\* the contexts the readers pass, no context, and one no block is for
CvContexts == {None, "binary", "spectrum", "precursor", "instrument", "software"}

\* the accessions of both tables, the code of the FT-ICR analyzer as the
\* vocabulary has it, and a code of neither table
CvAccessions ==
    {MzmlCvRules[i].acc : i \in 1..Len(MzmlCvRules)}
        \cup {MzdataCvRules[i].acc : i \in 1..Len(MzdataCvRules)}
        \cup {"MS:1000079", "MS:0000000"}

CvUnits == {MzmlCvRules[i].unit : i \in 1..Len(MzmlCvRules)} \cup {"UO:0000000"}

\* what a reader holds when the mapper is called on it
ReaderStates == {None, CENTROIDS, PROFILE}

MaxCalls == 2

MapperInit ==
    /\ MlIdle
    /\ XmlIdle
    /\ ThermoIdle
    /\ pin \in {[fn |-> "parse_cv_param", fmt |-> f, context |-> c, accession |-> a,
                 value |-> v, unit |-> u] :
                   f \in {"mzML", "mzData"}, c \in CvContexts, a \in CvAccessions,
                   v \in CvValues, u \in CvUnits}
    /\ pout = <<>>

\* one more call of the mapper with the same cvParam, on a reader in any
\* state
MapParam(self) ==
    /\ pin # <<>>
    /\ pin.fn = "parse_cv_param"
    /\ Len(pout) < MaxCalls
    /\ pout' = Append(pout, ParseCvParam(self, RulesOf(pin.fmt), pin.context, pin.accession,
                                         pin.value, IF pin.fmt = "mzML" THEN pin.unit ELSE ""))
    /\ UNCHANGED pin
    /\ UNCHANGED nonPureVars

MapperNext == \E self \in ReaderStates : MapParam(self)

SpecMapper == MapperInit /\ [][MapperNext]_vars

\* the code is in the table of the context: a rule of the mapper carries it
\* in the block of that context (in any block when no context is given)
InTable(rules, context, accession) ==
    \E i \in 1..Len(rules) :
        rules[i].acc = accession /\ (context = None \/ context = "" \/ context = rules[i].ctx)

PyNone == [kind |-> None, s |-> "", n |-> 0]
PyVal(a) == [kind |-> a.kind, s |-> a.s, n |-> a.n]

\* the three fields an instrument configuration carries
ConfigFields == {"ionization_source", "mass_analyzer", "resolution"}

\* the keys _make_header deletes from the raw data
RawOnlyKeys ==
    {"mz_data", "mz_precision", "mz_compression", "int_data", "int_precision",
     "int_compression", "sn_data", "sn_precision", "sn_compression", "precursor_target_mz",
     "precursor_lower_offset", "precursor_upper_offset", "precursor_width"}

\* _make_template: the keys of the raw data of a scan, all None
MakeTemplate ==
    [k \in {"scan_number", "parent_scan_number", "ms_level", "spectrum_type", "mass_analyzer",
            "ionization_source", "resolution", "points_count", "polarity", "retention_time",
            "low_mz", "high_mz", "basepeak_mz", "basepeak_intensity", "tic", "precursor_mz",
            "precursor_intensity", "precursor_charge", "precursor_low_mz", "precursor_high_mz",
            "dissociation_method", "activation_energy"} \cup RawOnlyKeys |-> PyNone]

\* the buffer of one configuration
ConfigBuffer == [f \in ConfigFields |-> PyNone]

\* a <cvParam>: accession, value and unitAccession
CvParam(acc, value, unit) == [acc |-> acc, value |-> value, unit |-> unit]

\* data[key] = value: the key is added where the mapping has none
SetItem(data, key, value) ==
    [k \in DOMAIN data \cup {key} |-> IF k = key THEN value ELSE data[k]]

\* for cvParam_elm in ...: key, value = self._parse_cv_param(cvParam_elm,
\* context); if key: data[key] = value
\* a conversion that fails leaves by its exception
RECURSIVE ApplyCvParams(_, _, _)
ApplyCvParams(data, params, context) ==
    IF params = <<>> THEN [raised |-> "", data |-> data]
    ELSE CHOOSE r \in {IF a.raised # "" THEN [raised |-> a.raised, data |-> data]
                       ELSE ApplyCvParams(IF a.field # None THEN SetItem(data, a.field, PyVal(a))
                                          ELSE data,
                                          Tail(params), context) :
                       a \in {ParseCvParam(None, MzmlCvRules, context, Head(params).acc,
                                           Head(params).value, Head(params).unit)}} : TRUE

\* _retrieve_instrument_configurations: every configuration with an id is
\* stored under it, from an empty buffer
RECURSIVE RetrieveInstrumentConfigurations(_, _)
RetrieveInstrumentConfigurations(instrument_configs, elms) ==
    IF elms = <<>> THEN instrument_configs
    ELSE LET elm == Head(elms)
             buffer == ApplyCvParams(ConfigBuffer, elm.params, "instrument").data
         IN  RetrieveInstrumentConfigurations(
                 IF elm.id = "" THEN instrument_configs
                 ELSE [k \in DOMAIN instrument_configs \cup {elm.id} |->
                          IF k = elm.id THEN buffer ELSE instrument_configs[k]],
                 Tail(elms))

\* a reader that lets the configuration referred to stand over the cvParams
\* of the scan
ScanParamsFirst(instrument_configs, spectrum_elm) ==
    LET own == ApplyCvParams(ApplyCvParams(MakeTemplate, spectrum_elm.params, "spectrum").data,
                             spectrum_elm.scan, "spectrum").data
        attr == spectrum_elm.ref
    IN  IF attr # "" /\ attr \in DOMAIN instrument_configs
        THEN [k \in DOMAIN own |->
                 IF k \in ConfigFields THEN instrument_configs[attr][k] ELSE own[k]]
        ELSE own

\* _retrieve_header_data, as far as the three fields go: the cvParams of
\* the spectrum, then for its scan the configuration it refers to if the
\* cache has it, then the cvParams of the scan
MzmlRetrieveHeaderData(instrument_configs, spectrum_elm) ==
    LET spec == ApplyCvParams(MakeTemplate, spectrum_elm.params, "spectrum").data
        attr == spectrum_elm.ref
        conf == IF attr # "" /\ attr \in DOMAIN instrument_configs
                THEN [k \in DOMAIN spec |->
                         IF k \in ConfigFields THEN instrument_configs[attr][k] ELSE spec[k]]
                ELSE spec
    IN  ApplyCvParams(conf, spectrum_elm.scan, "spectrum").data

INSTRUMENT_LIST == "instrumentConfigurationList"
SPECTRUM == "spectrum"

MaxConfEl == 2
MaxPasses == 2

\* the cvParams tried: electrospray, time-of-flight and a resolution of 2
\* in a configuration, a mass resolving power of -1 in a spectrum or scan
ConfigParams ==
    {<<>>,
     <<CvParam("MS:1000073", "", ""), CvParam("MS:1000084", "", "")>>,
     <<CvParam("MS:1000073", "", ""), CvParam("MS:1000084", "", ""),
       CvParam("MS:1000028", "2", "")>>}
SpectrumParams == {<<>>, <<CvParam("MS:1000800", "-1", "")>>}

ConfigEvents ==
    {[tag |-> INSTRUMENT_LIST, configs |-> <<[id |-> i, params |-> p]>>] :
        i \in {"", "IC1"}, p \in ConfigParams}
      \cup {[tag |-> SPECTRUM, params |-> p, ref |-> r, scan |-> s] :
              p \in SpectrumParams, r \in {"", "IC1", "IC2"}, s \in SpectrumParams}

\* a reader on a document, before its first pass: the cache of __init__
ConfigInit ==
    /\ MlIdle
    /\ XmlIdle
    /\ ThermoIdle
    /\ pin \in {[fn |-> "headers", doc |-> d] : d \in [1..MaxConfEl -> ConfigEvents]}
    /\ pout = [instrument_configs |-> <<>>, pass |-> 1, pos |-> 1, out |-> <<>>]

\* headers(): one more end event of the pass; the header of a spectrum is
\* kept as far as the three fields go
ConfigAdvance ==
    /\ pin # <<>>
    /\ pin.fn = "headers"
    /\ pout.pos <= Len(pin.doc)
    /\ \E elm \in {pin.doc[pout.pos]} :
          IF elm.tag = INSTRUMENT_LIST
          THEN pout' = [pout EXCEPT
                   !.instrument_configs =
                       RetrieveInstrumentConfigurations(pout.instrument_configs, elm.configs),
                   !.pos = @ + 1]
          ELSE \E scan_data \in {MzmlRetrieveHeaderData(pout.instrument_configs, elm)} :
                 pout' = [pout EXCEPT
                   !.out = Append(@, [el |-> pout.pos, pass |-> pout.pass,
                                      cached |-> elm.ref # ""
                                                  /\ elm.ref \in DOMAIN pout.instrument_configs,
                                      data |-> [f \in ConfigFields |-> scan_data[f]]]),
                   !.pos = @ + 1]
    /\ UNCHANGED pin
    /\ UNCHANGED nonPureVars

\* headers() again on the same reader, once the pass before is through
ConfigNewPass ==
    /\ pin # <<>>
    /\ pin.fn = "headers"
    /\ pout.pos > Len(pin.doc)
    /\ pout.pass < MaxPasses
    /\ pout' = [pout EXCEPT !.pass = @ + 1, !.pos = 1]
    /\ UNCHANGED pin
    /\ UNCHANGED nonPureVars

ConfigNext == ConfigAdvance \/ ConfigNewPass

SpecConfig == ConfigInit /\ [][ConfigNext]_vars

\* the configurations of the id a spectrum refers to that closed before it
\* in the document
ClosedEarlier(doc, el) ==
    {j \in 1..(el - 1) : /\ doc[j].tag = INSTRUMENT_LIST
                         /\ \E i \in 1..Len(doc[j].configs) : doc[j].configs[i].id = doc[el].ref}

\* the value the last cvParam for a field gives, None without one
LastValue(params, context, f) ==
    LET hits == {i \in 1..Len(params) :
                    ParseCvParam(None, MzmlCvRules, context, params[i].acc, params[i].value, "").field = f}
    IN  IF hits = {} THEN PyNone
        ELSE PyVal(ParseCvParam(None, MzmlCvRules, context,
                                params[CHOOSE i \in hits : \A j \in hits : j <= i].acc,
                                params[CHOOSE i \in hits : \A j \in hits : j <= i].value, ""))

\* the configuration of that id as the document states it last before the
\* spectrum
StatedConfig(doc, el) ==
    LET j == CHOOSE j \in ClosedEarlier(doc, el) : \A k \in ClosedEarlier(doc, el) : k <= j
        is == {i \in 1..Len(doc[j].configs) : doc[j].configs[i].id = doc[el].ref}
        i == CHOOSE i \in is : \A k \in is : k <= i
    IN  [f \in ConfigFields |-> LastValue(doc[j].configs[i].params, "instrument", f)]

\* a field as the parameters of the spectrum itself set it
OwnValue(elm, f) ==
    IF LastValue(elm.scan, "spectrum", f) # PyNone THEN LastValue(elm.scan, "spectrum", f)
    ELSE LastValue(elm.params, "spectrum", f)

ConfigActive == pin # <<>> /\ pin.fn = "headers"

\* C24 as stated: a scan that refers to a configuration whose list closed
\* earlier in the same pass has the ionization source, mass analyzer and
\* resolution of that configuration in its header, and a scan that refers
\* to an id the cache does not hold keeps the three as its own parameters
\* set them.
C24_Stated ==
    ConfigActive =>
        \A h \in 1..Len(pout.out) :
            LET el == pout.out[h].el
            IN  /\ (pin.doc[el].ref # "" /\ ClosedEarlier(pin.doc, el) # {}) =>
                      \A f \in ConfigFields : pout.out[h].data[f] = StatedConfig(pin.doc, el)[f]
                /\ ~pout.out[h].cached =>
                      \A f \in ConfigFields : pout.out[h].data[f] = OwnValue(pin.doc[el], f)

\* C24: a scan that refers to a configuration whose list closed earlier in
\* the same pass has the ionization source and mass analyzer of that
\* configuration in its header, and its resolution unless a parameter of the
\* scan element itself gives one, which then applies; a scan that refers to
\* an id the cache does not hold keeps the three as its own parameters set
\* them.
C24_ConfigAppliedToScans ==
    ConfigActive =>
        \A h \in 1..Len(pout.out) :
            LET el == pout.out[h].el
            IN  /\ (pin.doc[el].ref # "" /\ ClosedEarlier(pin.doc, el) # {}) =>
                      \A f \in ConfigFields :
                          pout.out[h].data[f] =
                              IF LastValue(pin.doc[el].scan, "spectrum", f) # PyNone
                              THEN LastValue(pin.doc[el].scan, "spectrum", f)
                              ELSE StatedConfig(pin.doc, el)[f]
                /\ ~pout.out[h].cached =>
                      \A f \in ConfigFields : pout.out[h].data[f] = OwnValue(pin.doc[el], f)

\* the scenario: a configuration IC1 of electrospray, time-of-flight and
\* resolution 2, then a spectrum of resolving power -1 whose scan refers to
\* IC1: its header has the source, the analyzer and the resolution 2 of IC1
C24_Witness ==
    /\ ConfigActive
    /\ pin.doc[1].tag = INSTRUMENT_LIST
    /\ pin.doc[1].configs[1].id = "IC1"
    /\ Len(pin.doc[1].configs[1].params) = 3
    /\ pin.doc[2].tag = SPECTRUM
    /\ pin.doc[2].ref = "IC1"
    /\ pin.doc[2].params # <<>>
    /\ pin.doc[2].scan = <<>>
    /\ Len(pout.out) >= 1
    /\ pout.out[1].cached
    /\ pout.out[1].data.ionization_source = [kind |-> "const", s |-> "ESI", n |-> 0]
    /\ pout.out[1].data.mass_analyzer = [kind |-> "const", s |-> "TOF", n |-> 0]
    /\ pout.out[1].data.resolution = [kind |-> "int", s |-> "", n |-> 2]

(***************************************************************************)
(* The lineage cache of a ThermoReader across open() and close().          *)
(***************************************************************************)

\* ThermoReader.open, called by the user (or by `with reader:`): nothing but
\* the file and the flag is touched
ThermoOpen ==
    /\ raw # <<>>
    /\ ~isOpened
    /\ isOpened' = TRUE
    /\ UNCHANGED <<raw, masters, lin, gens>>
    /\ UNCHANGED nonThermoVars

\* ThermoReader.close
ThermoClose ==
    /\ raw # <<>>
    /\ isOpened
    /\ isOpened' = FALSE
    /\ UNCHANGED <<raw, masters, lin, gens>>
    /\ UNCHANGED nonThermoVars

\* header(s) or scan(s) on the open reader: open() returns False, the file
\* stays open afterwards
HeaderWhileOpen(s) ==
    /\ isOpened
    /\ ResolveParent(s)

ReopenInit ==
    /\ MlIdle
    /\ XmlIdle
    /\ raw \in {[scans |-> f, dia |-> FALSE] : f \in [1..MaxScans -> FileScans]}
    /\ masters = NoMasters(MaxScans)
    /\ lin = <<>>
    /\ isOpened = FALSE
    /\ gens = <<>>
    /\ PureIdle

ReopenNext ==
    \/ ThermoOpen
    \/ ThermoClose
    \/ \E s \in 1..MaxScans : HeaderWhileOpen(s)

SpecReopen == ReopenInit /\ [][ReopenNext]_vars

\* C15: the lineage cache is reset on reopen: when the closed reader is
\* opened, its scan-to-parent map holds no entry.
C15_CacheResetOnReopen ==
    [][(~isOpened /\ isOpened') => \A s \in 1..MaxScans : ~IsCached(masters', s)]_vars

(***************************************************************************)
(* ScanHeader (header.py)                                                  *)
(***************************************************************************)

\* the fields ScanHeader.__init__ declares
HeaderFields ==
    {"scan_number", "parent_scan_number", "acquisition_date", "instrument_name",
     "instrument_model", "title", "ms_level", "polarity", "spectrum_type", "mass_analyzer",
     "ionization_source", "resolution", "retention_time", "low_mz", "high_mz",
     "points_count", "tic", "basepeak_mz", "basepeak_intensity", "precursor_mz",
     "precursor_intensity", "precursor_charge", "precursor_low_mz", "precursor_high_mz",
     "dissociation_method", "activation_energy", "activation_energies", "custom_data"}

\* the methods of the class: attributes of every instance as well
HeaderMethods == {"__init__", "__str__", "__ne__", "__repr__", "__eq__"}

\* the defaults: None, and '' for the title
HeaderDefaults == [f \in HeaderFields |-> IF f = "title" THEN Some("") ELSE NoneV]

\* hasattr(self, name) for the test of the constructor
HasAttr(name) == name \in HeaderFields \cup HeaderMethods

\* ScanHeader.__init__(attributes): the defaults, then setattr for every
\* name the instance has, AttributeError for the first it has not.  fields
\* are the declared fields of the new header, shadowed the other
\* attributes set on it.
ScanHeaderInit(attributes) ==
    IF \E name \in DOMAIN attributes : ~HasAttr(name)
    THEN [raised |-> "AttributeError", fields |-> HeaderDefaults, shadowed |-> {}]
    ELSE [raised |-> "",
          fields |-> [f \in HeaderFields |->
                        IF f \in DOMAIN attributes THEN Some(attributes[f]) ELSE HeaderDefaults[f]],
          shadowed |-> DOMAIN attributes \ HeaderFields]

\* the names and values of the mappings tried
HeaderNames == {"ms_level", "polarity", "title", "__str__", "scan_filter"}
HeaderValues == {"a", "b"}

HeaderInit ==
    /\ MlIdle
    /\ XmlIdle
    /\ ThermoIdle
    /\ pin \in {[fn |-> "ScanHeader", attributes |-> a] :
                   a \in UNION {[d -> HeaderValues] : d \in SUBSET HeaderNames}}
    /\ pout = <<>>

\* ScanHeader(attributes) is called
ConstructHeader ==
    /\ pin # <<>>
    /\ pin.fn = "ScanHeader"
    /\ pout = <<>>
    /\ pout' = ScanHeaderInit(pin.attributes)
    /\ UNCHANGED pin
    /\ UNCHANGED nonPureVars

HeaderNext == ConstructHeader

SpecHeader == HeaderInit /\ [][HeaderNext]_vars

\* C17: the construction fails when the mapping has a name that is no
\* declared field; otherwise it succeeds, every given value is assigned and
\* every other field is absent.
C17_UnknownNameRejected ==
    (pin # <<>> /\ pin.fn = "ScanHeader" /\ pout # <<>>) =>
        IF \E name \in DOMAIN pin.attributes : name \notin HeaderFields
        THEN pout.raised # ""
        ELSE /\ pout.raised = ""
             /\ \A f \in HeaderFields :
                   pout.fields[f] = IF f \in DOMAIN pin.attributes
                                    THEN Some(pin.attributes[f]) ELSE NoneV

(***************************************************************************)
(* MZMLReader._make_header: from the raw data of a spectrum to its         *)
(* ScanHeader.                                                             *)
(***************************************************************************)

\* a number of the raw data; "float/2" marks one counted in halves, as
\* 0.5 * precursor_width and what is computed from it are
Float(n) == [kind |-> "float", s |-> "", n |-> n]
HalvesOf(v) == IF v.kind = "float/2" THEN v.n ELSE 2 * v.n
InHalves(n) == [kind |-> "float/2", s |-> "", n |-> n]

\* _make_header: the target defaults to the selected ion, the offsets are
\* half the width if there is one, the window is computed around the
\* target if there is one (None in the arithmetic: TypeError), the raw-only
\* keys are deleted and ScanHeader is built from all the rest
MzmlMakeHeader(scan_data) ==
    LET target == IF scan_data["precursor_target_mz"] = PyNone
                  THEN scan_data["precursor_mz"] ELSE scan_data["precursor_target_mz"]
        width == scan_data["precursor_width"]
        lower == IF width # PyNone THEN InHalves(width.n) ELSE scan_data["precursor_lower_offset"]
        upper == IF width # PyNone THEN InHalves(width.n) ELSE scan_data["precursor_upper_offset"]
        header_data ==
            IF target = PyNone THEN scan_data
            ELSE [scan_data EXCEPT
                    !["precursor_low_mz"] = InHalves(HalvesOf(target) - HalvesOf(lower)),
                    !["precursor_high_mz"] = InHalves(HalvesOf(target) + HalvesOf(upper))]
    IN  IF target # PyNone /\ (lower = PyNone \/ upper = PyNone)
        THEN [raised |-> "TypeError", fields |-> HeaderDefaults, shadowed |-> {}]
        ELSE ScanHeaderInit([k \in DOMAIN scan_data \ RawOnlyKeys |-> header_data[k]])

\* the codes the mapper knows in the spectrum and precursor contexts
HeaderContexts == {"spectrum", "precursor"}
HeaderAccessions ==
    {MzmlCvRules[i].acc : i \in {j \in 1..Len(MzmlCvRules) : MzmlCvRules[j].ctx \in HeaderContexts}}

\* a spectrum with one cvParam, in the spectrum or in its precursor
SchemaInit ==
    /\ MlIdle
    /\ XmlIdle
    /\ ThermoIdle
    /\ pin \in {[fn |-> "make_header", context |-> c, accession |-> a, value |-> v, unit |-> u] :
                   c \in HeaderContexts, a \in HeaderAccessions, v \in CvValues, u \in CvUnits}
    /\ pout = <<>>

\* the header of the spectrum is built: _retrieve_header_data assigns what
\* the mapper returns for the cvParam, _make_header does the rest
HeaderOfParam ==
    /\ pin # <<>>
    /\ pin.fn = "make_header"
    /\ pout = <<>>
    /\ \E r \in {ApplyCvParams(MakeTemplate, <<CvParam(pin.accession, pin.value, pin.unit)>>,
                               pin.context)} :
          pout' = IF r.raised # ""
                  THEN [raised |-> r.raised, fields |-> HeaderDefaults, shadowed |-> {}]
                  ELSE MzmlMakeHeader(r.data)
    /\ UNCHANGED pin
    /\ UNCHANGED nonPureVars

SchemaNext == HeaderOfParam

SpecSchema == SchemaInit /\ [][SchemaNext]_vars

\* C27: whatever field the mzML mapper assigns in the spectrum and
\* precursor contexts, building the header does not fail on a name the
\* header does not have: each is a field of ScanHeader or a key
\* _make_header deletes.
C27_MappedFieldsInSchema ==
    (pin # <<>> /\ pin.fn = "make_header" /\ pout # <<>>) => pout.raised # "AttributeError"

\* the precursor parameters of a spectrum as the mapper left them: each
\* given or not
WindowInputs ==
    {[fn |-> "precursor_window", precursor_mz |-> mz, precursor_target_mz |-> t,
      precursor_low_mz |-> lo, precursor_high_mz |-> hi, precursor_lower_offset |-> lof,
      precursor_upper_offset |-> uof, precursor_width |-> w] :
        mz \in {PyNone, Float(10)}, t \in {PyNone, Float(20)}, lo \in {PyNone, Float(1)},
        hi \in {PyNone, Float(40)}, lof \in {PyNone, Float(2)}, uof \in {PyNone, Float(3)},
        w \in {PyNone, Float(5)}}

PrecursorKeys ==
    {"precursor_mz", "precursor_target_mz", "precursor_low_mz", "precursor_high_mz",
     "precursor_lower_offset", "precursor_upper_offset", "precursor_width"}

WindowInit ==
    /\ MlIdle
    /\ XmlIdle
    /\ ThermoIdle
    /\ pin \in WindowInputs
    /\ pout = <<>>

\* _make_header on the raw data with these precursor parameters
HeaderOfPrecursor ==
    /\ pin # <<>>
    /\ pin.fn = "precursor_window"
    /\ pout = <<>>
    /\ pout' = MzmlMakeHeader([k \in DOMAIN MakeTemplate |->
                                  IF k \in PrecursorKeys THEN pin[k] ELSE MakeTemplate[k]])
    /\ UNCHANGED pin
    /\ UNCHANGED nonPureVars

WindowNext == HeaderOfPrecursor

SpecWindow == WindowInit /\ [][WindowNext]_vars

\* two values of the header are the same number, or both None
SameNumber(a, b) ==
    IF a = PyNone \/ b = PyNone THEN a = b ELSE HalvesOf(a) = HalvesOf(b)

\* the target of the isolation: the target m/z, else the selected ion
StatedTarget == IF pin.precursor_target_mz # PyNone THEN pin.precursor_target_mz ELSE pin.precursor_mz

\* the offsets: half the width each when the width is given
StatedLower == IF pin.precursor_width # PyNone THEN InHalves(pin.precursor_width.n) ELSE pin.precursor_lower_offset
StatedUpper == IF pin.precursor_width # PyNone THEN InHalves(pin.precursor_width.n) ELSE pin.precursor_upper_offset

\* C28: the header of an mzML spectrum is built whichever precursor
\* parameters are given; its isolation window is the explicit limits when
\* given, else target minus lower offset and target plus upper offset, and
\* absent when neither is to be had.
C28_IsolationWindow ==
    (pin # <<>> /\ pin.fn = "precursor_window" /\ pout # <<>>) =>
        /\ pout.raised = ""
        /\ SameNumber(pout.fields["precursor_low_mz"][1],
                      IF pin.precursor_low_mz # PyNone THEN pin.precursor_low_mz
                      ELSE IF StatedTarget # PyNone /\ StatedLower # PyNone
                           THEN InHalves(HalvesOf(StatedTarget) - HalvesOf(StatedLower))
                           ELSE PyNone)
        /\ SameNumber(pout.fields["precursor_high_mz"][1],
                      IF pin.precursor_high_mz # PyNone THEN pin.precursor_high_mz
                      ELSE IF StatedTarget # PyNone /\ StatedUpper # PyNone
                           THEN InHalves(HalvesOf(StatedTarget) + HalvesOf(StatedUpper))
                           ELSE PyNone)

(***************************************************************************)
(* Centroid (centroid.py): the derived values                              *)
(***************************************************************************)

\* bounds of the centroids tried
MaxSnAi == 4
MaxBase == 2
MaxNoise == 3

\* a Centroid with the fields its sn reads: base is a number (0.0 unless
\* given), noise a number or None
SnCentroid(ai, base, noise) == [ai |-> ai, base |-> base, noise |-> noise]

RECURSIVE Gcd(_, _)
Gcd(a, b) == IF b = 0 THEN a ELSE Gcd(b, a % b)

Abs(x) == IF x < 0 THEN 0 - x ELSE x

\* the quotient n / d of true division, d # 0, as a fraction in lowest
\* terms with a positive denominator
TrueDiv(n, d) ==
    LET g == Gcd(Abs(n), Abs(d))
        sg == IF d < 0 THEN 0 - 1 ELSE 1
    IN  [num |-> sg * (n \div g), den |-> sg * (d \div g)]

\* a signal-to-noise that leaves the baseline in the signal
SnUncorrected(c) ==
    IF c.noise = NoneV \/ c.noise[1] = 0 THEN NoneV
    ELSE Some(TrueDiv(c.ai, c.noise[1]))

\* Centroid.sn: None if not self.noise, else (self.ai - self.base) / self.noise
Sn(c) ==
    IF c.noise = NoneV \/ c.noise[1] = 0 THEN NoneV
    ELSE Some(TrueDiv(c.ai - c.base, c.noise[1]))

SnInit ==
    /\ MlIdle
    /\ XmlIdle
    /\ ThermoIdle
    /\ pin \in {[fn |-> "sn", c |-> SnCentroid(a, b, n)] :
                   a \in 0..MaxSnAi, b \in 0..MaxBase,
                   n \in {NoneV} \cup {Some(v) : v \in 0..MaxNoise}}
    /\ pout = <<>>

\* centroid.sn is read
ReadSn ==
    /\ pin # <<>>
    /\ pin.fn = "sn"
    /\ pout = <<>>
    /\ pout' = [sn |-> Sn(pin.c)]
    /\ UNCHANGED pin
    /\ UNCHANGED nonPureVars

SnNext == ReadSn

SpecSn == SnInit /\ [][SnNext]_vars

\* C18: sn is absent if and only if noise is absent or zero; otherwise sn
\* equals (ai - base) / noise.
C18_SnDefinition ==
    (pin # <<>> /\ pin.fn = "sn" /\ pout # <<>>) =>
        /\ pout.sn = NoneV <=> (pin.c.noise = NoneV \/ pin.c.noise = Some(0))
        /\ pout.sn # NoneV =>
              /\ pout.sn[1].den > 0
              /\ pout.sn[1].num * pin.c.noise[1] = (pin.c.ai - pin.c.base) * pout.sn[1].den

\* the scenario: ai 4 over a baseline of 1 with noise 2 gives 3/2
C18_Witness ==
    /\ pin # <<>>
    /\ pin.fn = "sn"
    /\ pin.c = SnCentroid(4, 1, Some(2))
    /\ pout # <<>>
    /\ pout.sn = Some([num |-> 3, den |-> 2])

(***************************************************************************)
(* The trailer step of the parent-scan resolution under every setting of   *)
(* VALIDATE_MS_LEVEL and FOLLOW_PRECURSOR.                                 *)
(***************************************************************************)

\* files whose scans have a level of 1 to 3 and a trailer master scan that
\* is unreadable, 0, or any scan of the file
TrailerScans ==
    {RawScan(Some(l), t, NoneV, NoneV, Some(1), 400, 1200, NoneV) :
        l \in 1..3, t \in {TrailerErr} \cup {TrailerVal(n) : n \in 0..MaxScans}}

TrailerInit ==
    /\ MlIdle
    /\ XmlIdle
    /\ raw \in {[scans |-> f, dia |-> FALSE] : f \in [1..MaxScans -> TrailerScans]}
    /\ masters = NoMasters(MaxScans)
    /\ lin = <<>>
    /\ isOpened = FALSE
    /\ gens = <<>>
    /\ pin \in {[fn |-> "by_trailer", validate |-> v, follow |-> f, scan |-> s] :
                   v \in BOOLEAN, f \in BOOLEAN, s \in 1..MaxScans}
    /\ pout = <<>>

\* _retrieve_parent_scan_number_by_trailer(scan_number, ms_level - 1), as
\* _retrieve_parent_scan_number calls it, with the flags set as in pin
TrailerStep ==
    /\ pin # <<>>
    /\ pin.fn = "by_trailer"
    /\ pout = <<>>
    /\ pout' = ByTrailerWith(pin.validate, pin.follow, raw, masters, pin.scan,
                             RetrieveMsLevel(raw, pin.scan)[1] - 1, {pin.scan})
    /\ UNCHANGED pin
    /\ UNCHANGED <<mlVars, xmlVars, thermoVars>>

TrailerNext == TrailerStep

SpecTrailer == TrailerInit /\ [][TrailerNext]_vars

(***************************************************************************)
(* The lineage cache and the order in which the scans of a file are        *)
(* resolved.                                                               *)
(***************************************************************************)

OrderInit ==
    /\ MlIdle
    /\ XmlIdle
    /\ raw \in {[scans |-> f, dia |-> FALSE] : f \in [1..MaxScans -> TrailerScans]}
    /\ masters = NoMasters(MaxScans)
    /\ lin = <<>>
    /\ isOpened = FALSE
    /\ gens = <<>>
    /\ PureIdle

OrderNext == \E s \in 1..MaxScans : ResolveParent(s)

SpecOrder == OrderInit /\ [][OrderNext]_vars

\* C29: the parent a reader resolves for a scan is the one a fresh reader
\* of the same file resolves for it, whichever scans were resolved before;
\* and a parent found by the trailer step, a cached one included, has the
\* level just below the scan's.
C29_OrderIndependent ==
    [][lin' # lin =>
          LET s == lin'.scan
              fresh == RetrieveParentScanNumber(raw, NoMasters(MaxScans), s)
          IN  /\ lin'.res.v = fresh.v
              /\ lin'.res.raised = fresh.raised
              /\ (lin'.res.raised = "" /\ lin'.res.step = "trailer" /\ lin'.res.v # NoneV) =>
                    RetrieveMsLevel(raw, lin'.res.v[1]) = Some(RetrieveMsLevel(raw, s)[1] - 1)]_vars

\* the recorded master of scan s, absent if the trailer has none
RecordedMaster(r, s) ==
    IF InFile(r, s) /\ r.scans[s].trailer.st = "val" /\ r.scans[s].trailer.v > 0
    THEN Some(r.scans[s].trailer.v) ELSE NoneV

\* the outcome the trailer step is said to have: the recorded master if its
\* level is lvl; else, with both flags on, the outcome for the master's own
\* trailer; else the recorded master as it is.  ends is FALSE when n
\* follow-ups reach neither a matching level nor a missing trailer.
RECURSIVE StatedTrailer(_, _, _, _, _, _)
StatedTrailer(validate, follow, r, s, lvl, n) ==
    LET m == RecordedMaster(r, s)
    IN  IF m = NoneV THEN [ends |-> TRUE, v |-> NoneV]
        ELSE IF RetrieveMsLevel(r, m[1]) = Some(lvl) THEN [ends |-> TRUE, v |-> m]
        ELSE IF validate /\ follow
             THEN IF n = 0 THEN [ends |-> FALSE, v |-> NoneV]
                  ELSE StatedTrailer(validate, follow, r, m[1], lvl, n - 1)
        ELSE [ends |-> TRUE, v |-> m]

\* C19: the trailer step accepts the recorded master when its level is the
\* queried level minus one; otherwise, with validation and follow-precursor
\* both on, it follows the master's own trailer until the levels match or
\* there is no further trailer; under every other setting of the flags it
\* accepts the recorded master unvalidated.
C19_TrailerStep ==
    (pin # <<>> /\ pin.fn = "by_trailer" /\ pout # <<>>) =>
        LET st == StatedTrailer(pin.validate, pin.follow, raw, pin.scan,
                                RetrieveMsLevel(raw, pin.scan)[1] - 1, MaxScans)
        IN  /\ pout.raised = ""
            /\ st.ends => pout.v = st.v

(***************************************************************************)
(* The event-index step of the parent-scan resolution.                     *)
(***************************************************************************)

\* files of MS2 scans with no trailer master: every scan has a scan event
\* of 1 to 3, a master index of 1 or 2, a mass range from 400 or 600 to
\* 1200 and a precursor m/z of 500 or none
EventScans ==
    {RawScan(Some(2), TrailerErr, Some(e), Some(me), Some(1), lo, 1200, p) :
        e \in 1..3, me \in 1..2, lo \in {400, 600}, p \in {NoneV, Some(500)}}

EventInit ==
    /\ MlIdle
    /\ XmlIdle
    /\ raw \in {[scans |-> f, dia |-> FALSE] : f \in [1..MaxScans -> EventScans]}
    /\ masters = NoMasters(MaxScans)
    /\ lin = <<>>
    /\ isOpened = FALSE
    /\ gens = <<>>
    /\ pin \in {[fn |-> "by_event_index", scan |-> s] : s \in 1..MaxScans}
    /\ pout = <<>>

\* the event-index stage of _retrieve_parent_scan_number for one scan
EventStep ==
    /\ pin # <<>>
    /\ pin.fn = "by_event_index"
    /\ pout = <<>>
    /\ pout' = TryEventIndex(raw, masters, pin.scan, PrecursorMz(raw, pin.scan))
    /\ UNCHANGED pin
    /\ UNCHANGED <<mlVars, xmlVars, thermoVars>>

EventNext == EventStep

SpecEventIndex == EventInit /\ [][EventNext]_vars

\* the cycle boundary of scan s: the first scan with event index 1 met on
\* the way back, 0 if there is none
CycleBoundary(r, s) ==
    LET ones == {b \in 1..(s - 1) : RetrieveScanEventIndex(r, b) = Some(1)}
    IN  IF ones = {} THEN 0 ELSE CHOOSE b \in ones : \A c \in ones : c <= b

\* scan j can be the parent of s by event index: its event index is the
\* master index of s and its mass range holds the precursor of s, if known
EventMatch(r, s, j) ==
    /\ RetrieveScanEventIndex(r, j) = RetrieveMasterScanEventIndex(r, s)
    /\ ~Truthy(PrecursorMz(r, s)) \/ InMassRange(RetrieveMassRange(r, j), PrecursorMz(r, s)[1])

\* C20: the event-index step returns the first scan on the way back that
\* matches, never one before the cycle boundary, and absent if there is no
\* match up to the boundary.
C20_EventIndexStep ==
    (pin # <<>> /\ pin.fn = "by_event_index" /\ pout # <<>>) =>
        LET s == pin.scan
            within == {j \in 1..(s - 1) : j >= CycleBoundary(raw, s) /\ EventMatch(raw, s, j)}
        IN  /\ pout.raised = ""
            /\ pout.v = IF within = {} THEN NoneV
                        ELSE Some(CHOOSE j \in within : \A k \in within : k <= j)

=============================================================================
